---- MODULE Spec2Model ----
(***************************************************************************)
(* Thread handle lifecycle of dmosi-freertos (src/src/dmosi_thread.c):     *)
(* create / thread_wrapper / join / kill / destroy over FreeRTOS tasks,    *)
(* task notifications, task-local storage and critical sections.           *)
(*                                                                         *)
(* Every FreeRTOS task is a process of the model.  A task may be preempted *)
(* between any two statements that are not inside a critical section       *)
(* (taskENTER_CRITICAL .. taskEXIT_CRITICAL); inCS names the task that     *)
(* holds the critical section, and no other task steps while it is held.   *)
(***************************************************************************)
EXTENDS Integers, FiniteSets, Sequences, TLC

\* ---------------------------------------------------------------- bounds
MaxCalls == 2      \* join/kill/destroy calls started in one behaviour
MaxWork  == 1      \* observable steps of one entry function's body
MaxStray == 1      \* notifications that reach a task from other sources
MaxBoot  == 4      \* _init and _deinit calls of one behaviour
MaxDepth == 3      \* nested _thread_current frames a task stack holds
MaxMs    == 12     \* largest timeout_ms given to a timed call
MaxPCalls == 4     \* _process_wait/_process_kill calls of one behaviour
MaxPid   == 3      \* largest pid given to _process_set_id
MaxCount == 2      \* largest max_count given to get_all / get_by_process

\* ------------------------------------------------------------- constants
NULL == 0

\* The populations: two application tasks that call the thread API (a
\* joiner and a killer, or two joiners) and one handle made by create,
\* whose native task runs thread_wrapper.
Callers == {1, 2}
Handles == {1}

\* The native task that xTaskCreate makes for handle h.
TaskOf(h) == Cardinality(Callers) + h
Tasks     == Callers \cup {TaskOf(h) : h \in Handles}

\* The handle that _thread_current allocates for task t when the task's
\* TLS slot is empty (a task at most has one at a time).
LazyOf(t)   == Cardinality(Handles) + t
LazyHandles == {LazyOf(t) : t \in Tasks}
AllHandles  == Handles \cup LazyHandles

\* Process handles: the root ("system") process and one application process.
Processes == {1, 2}

\* The blocks dmosi_process_create can return: those of Processes once
\* they are free again, and one more.
ProcessBlocks == Processes \cup {3}

\* Return codes of the API (errno names).
OK       == "0"
E_INVAL  == "-EINVAL"
E_BUSY   == "-EBUSY"
E_AGAIN  == "-EAGAIN"
E_TIMEDOUT == "-ETIMEDOUT"

\* The tick rate of the default build (README, DMOSI_TICK_RATE_HZ).
DMOSI_TICK_RATE_HZ == 100

\* The width of TickType_t.  The build has 32 bits; the model keeps 30,
\* the widest its integers allow for, and no timeout of the model comes
\* near either.  portMAX_DELAY, the block time that means "wait
\* indefinitely", is the largest TickType_t.
TickBits      == 30
portMAX_DELAY == 2^TickBits - 1
NORET    == "none"

VARIABLES
    thread,   \* Handles -> struct dmosi_thread plus its allocation state
    task,     \* Tasks   -> the kernel's view of a native task
    inCS,     \* the task inside taskENTER_CRITICAL/taskEXIT_CRITICAL, or NULL
    pc,       \* Tasks   -> position in the code
    arg,      \* Tasks   -> the `thread` parameter of the running function
    jtn,      \* Tasks   -> local joiner_to_notify
    call,     \* Callers -> what is known about the call in progress
    calls,    \* number of join/kill/destroy calls started so far
    work,     \* Handles -> steps of the entry body executed so far
    stray,    \* notifications given so far by other sources
    hist,     \* Handles -> history of the handle (observation only)
    g_init_process,    \* the fallback process of the init window, or NULL
    g_system_process,  \* the root process, or NULL
    cur,      \* Tasks -> the handle the task holds from _thread_current
    proc,     \* ProcessBlocks -> allocation state of a process
    boot,     \* the _init and _deinit calls that have returned, with their
              \* results (observation only)
    configTICK_RATE_HZ, \* the tick rate the kernel is built with
    procs,    \* ProcessBlocks -> struct dmod_process: state, waiter, pid
    g_next_pid,         \* the counter the process IDs come from
    timer,    \* Timers -> struct dmosi_timer and the period of its handle
    stack_size,  \* AllHandles -> the stack_size field of the handle
    info      \* Callers -> the dmosi_thread_info_t _thread_get_info fills

kernelVars == <<task, inCS>>
ghostVars  == <<hist>>
boundVars  == <<calls, work, stray>>
sysVars    == <<configTICK_RATE_HZ, procs, g_next_pid, timer, stack_size,
               info>>
procVars   == <<g_init_process, g_system_process, proc, boot, sysVars>>
vars == <<thread, task, inCS, pc, arg, jtn, call, calls, work, stray, hist,
          g_init_process, g_system_process, cur, proc, boot,
          configTICK_RATE_HZ, procs, g_next_pid, timer, stack_size, info>>

\* ------------------------------------------------- struct dmosi_thread
\* Mutant of thread_new: the completed test inverted (entry != NULL).
thread_new_Inverted(handle, entry, process) ==
    [alloc     |-> "live",
     handle    |-> handle,
     entry     |-> entry,
     completed |-> (entry # FALSE),
     joined    |-> FALSE,
     joiner    |-> NULL,
     process   |-> process]

\* thread_new: the initial field values of a handle.
thread_new(handle, entry, process) ==
    [alloc     |-> "live",
     handle    |-> handle,
     entry     |-> entry,
     completed |-> (entry = FALSE),
     joined    |-> FALSE,
     joiner    |-> NULL,
     process   |-> process]

NoThread ==
    [alloc |-> "none", handle |-> NULL, entry |-> FALSE,
     completed |-> FALSE, joined |-> FALSE, joiner |-> NULL,
     process |-> NULL]

Live(h) == thread[h].alloc = "live"

\* Reads of a field.  A read of a handle that vPortFree has released is a
\* use after free: the value is whatever the heap now holds there.
RdCompleted(h) == IF Live(h) THEN {thread[h].completed} ELSE BOOLEAN
RdJoined(h)    == IF Live(h) THEN {thread[h].joined}    ELSE BOOLEAN
RdJoiner(h)    == IF Live(h) THEN {thread[h].joiner}    ELSE Tasks \cup {NULL}
RdHandle(h)    == IF Live(h) THEN {thread[h].handle}    ELSE Tasks \cup {NULL}
RdEntry(h)     == IF Live(h) THEN {thread[h].entry}     ELSE BOOLEAN
RdProcess(h)   == IF Live(h) THEN {thread[h].process}   ELSE Processes \cup {NULL}

\* Writes of a field (a write to released memory does not reach the handle).
WrCompleted(h, v) == IF Live(h) THEN [thread EXCEPT ![h].completed = v] ELSE thread
WrJoined(h, v)    == IF Live(h) THEN [thread EXCEPT ![h].joined = v]    ELSE thread
WrJoiner(h, v)    == IF Live(h) THEN [thread EXCEPT ![h].joiner = v]    ELSE thread

\* ------------------------------------------------------ FreeRTOS kernel
NoTask == [state |-> "none", notif |-> 0, tls |-> NULL]
NewTask == [state |-> "alive", notif |-> 0, tls |-> NULL]

Alive(t) == task[t].state = "alive"

\* A task can take a step: it exists, and nobody else holds the critical
\* section (interrupts disabled: no context switch).
CanRun(t) == Alive(t) /\ inCS \in {NULL, t}

\* xTaskNotifyGive: increments the target's notification value.
xTaskNotifyGive(tk, t) ==
    IF t = NULL THEN tk ELSE [tk EXCEPT ![t].notif = @ + 1]

\* The kernel stops: no task is scheduled any more (a fault, a failed
\* configASSERT, a corrupted ready list).
Halt(tk) == [t \in DOMAIN tk |-> [tk[t] EXCEPT !.state = "halted"]]

Halted == \E t \in Tasks : task[t].state = "halted"

\* A kernel call that is given the handle of a task that does not exist
\* (never created, or deleted: its control block is on the termination list
\* or already back in the heap) reads and writes memory the kernel no
\* longer owns.  The outcomes: nothing visible happens, or the kernel stops.
StaleCall(tk) == {tk, Halt(tk)}

\* vTaskDelete: the task stops existing as a schedulable context.  The
\* result is the set of possible outcomes.
vTaskDelete(tk, t) ==
    IF tk[t].state = "alive"
    THEN {[tk EXCEPT ![t].state = "deleted"]}
    ELSE StaleCall(tk)

\* vTaskSetThreadLocalStoragePointer(t, DMOD_THREAD_TLS_INDEX, v)
vTaskSetThreadLocalStoragePointer(tk, t, v) == [tk EXCEPT ![t].tls = v]

\* ------------------------------------------------------------- history
NoHist ==
    [joinCalls |-> 0, killCalled |-> FALSE, destroyCalled |-> FALSE,
     killMarked |-> FALSE, killOk |-> FALSE, joinOk |-> 0,
     reqProcess |-> NULL, curProcess |-> {}, reassigned |-> FALSE]

\* The arguments, locals and result of a thread_enumerate call: the task
\* array filled by uxTaskGetSystemState (snap), the loop index i, count,
\* the entries written to threads[] (out), and which tasks of the array
\* were counted (matched, observation only).
NoEnum ==
    [process |-> NULL, threads |-> FALSE, max_count |-> 0,
     snap |-> <<>>, i |-> 0, count |-> 0, out |-> <<>>, matched |-> {},
     ret |-> 0]

\* The timeout of a timed call: the function, its timeout_ms, whether the
\* call got as far as converting it, and the block time given to the
\* kernel.
NoTimeout == [fn |-> "", timeout_ms |-> 0, conv |-> FALSE, ticks |-> 0]

NoCall ==
    [ret |-> NORET, waited |-> FALSE, spun |-> FALSE,
     preJoined |-> FALSE, preKillOk |-> FALSE, running |-> FALSE,
     en |-> NoEnum, depth |-> 0, tmo |-> NoTimeout]

\* dmosi_thread_info_t before _thread_get_info has filled it.  queried
\* (vTaskGetInfo was called) and free_bytes (the free stack the kernel
\* reported) are for observation only.
NoInfo ==
    [state |-> "none", stack_total |-> 0, stack_current |-> 0,
     stack_peak |-> 0, cpu_usage |-> 0, runtime_ms |-> 0,
     queried |-> FALSE, free_bytes |-> 0]

\* struct dmosi_timer: the timers of the model, and a timer that does not
\* exist.  period_ticks is the period the kernel keeps for the handle;
\* period_ms is the period last given by the application and period_got
\* the last result of _timer_get_period (NoPeriod: none since the period
\* was given), both for observation only.
Timers   == {1, 2}
NoPeriod == 0 - 1
NoTimer  == [alloc |-> "none", period_ticks |-> 0, period_ms |-> 0,
             period_got |-> NoPeriod]

\* ------------------------------------------------- struct dmod_process
\* A process block that holds no process.
NoProcess == [state |-> "none", waiter |-> NULL, pid |-> 0]

\* part_010 lines 38-64, process_new: the process gets the ID pid, the
\* state CREATED and no waiter.
process_new(pid) == [state |-> "CREATED", waiter |-> NULL, pid |-> pid]

\* ---------------------------------------------------------------- Init
\* What a task holds from its calls of _thread_current: the handle the
\* last call returned (NULL: none, or a destroy of it has been called
\* since), and whether that call found the handle already registered.
NoCur == [h |-> NULL, again |-> FALSE]

Init ==
    /\ thread = [h \in AllHandles |-> NoThread]
    /\ task   = [t \in Tasks |-> IF t \in Callers THEN NewTask ELSE NoTask]
    /\ inCS   = NULL
    /\ pc     = [t \in Tasks |-> IF t \in Callers THEN "idle" ELSE "none"]
    /\ arg    = [t \in Tasks |-> NULL]
    /\ jtn    = [t \in Tasks |-> NULL]
    /\ call   = [t \in Tasks |-> NoCall]
    /\ calls  = 0
    /\ work   = [h \in Handles |-> 0]
    /\ stray  = 0
    /\ hist   = [h \in AllHandles |-> NoHist]
    /\ g_init_process   = NULL
    /\ g_system_process = 1
    /\ cur    = [t \in Tasks |-> NoCur]
    /\ proc   = [p \in ProcessBlocks |->
                    IF p \in Processes THEN "live" ELSE "none"]
    /\ boot   = <<>>
    /\ configTICK_RATE_HZ = DMOSI_TICK_RATE_HZ
    /\ procs  = [p \in ProcessBlocks |->
                    IF p \in Processes THEN process_new(p) ELSE NoProcess]
    /\ g_next_pid = Cardinality(Processes) + 1
    /\ timer  = [k \in Timers |-> NoTimer]
    /\ stack_size = [h \in AllHandles |-> 0]
    /\ info   = [c \in Callers |-> NoInfo]

\* ----------------------------------------------------- _process_current
\* The process of the calling task: the process of the handle in its TLS
\* slot if there is one and it names a process, else the root process.
dmosi_process_current(t) ==
    IF task[t].tls = NULL THEN {g_system_process}
    ELSE {IF p # NULL THEN p ELSE g_system_process :
             p \in RdProcess(task[t].tls)}

\* Mutant of thread_create_in: an unspecified process is resolved to the
\* root process instead of the caller's current process.
thread_create_in_Root(c, h, process) ==
    /\ pc[c] = "idle" /\ CanRun(c)
    /\ thread[h].alloc = "none"
    /\ \A g \in Handles : g < h => thread[g].alloc # "none"
    /\ LET p == IF process = NULL THEN g_system_process ELSE process
       IN thread' = [thread EXCEPT ![h] =
                        [thread_new(NULL, TRUE, p) EXCEPT !.handle = TaskOf(h)]]
    /\ task' = [task EXCEPT ![TaskOf(h)] = NewTask]
    /\ pc'   = [pc EXCEPT ![TaskOf(h)] = "w_tls"]
    /\ arg'  = [arg EXCEPT ![TaskOf(h)] = h]
    /\ UNCHANGED <<inCS, jtn, call, boundVars, procVars, cur>>
    /\ hist' = [hist EXCEPT ![h].reqProcess = process,
                            ![h].curProcess = dmosi_process_current(c)]

\* ------------------------------------------------------- _thread_create
\* create with valid arguments and the given process argument (NULL: the
\* caller's current process): thread_new, then xTaskCreate stores the new
\* task's handle into thread->handle and makes the task ready.
thread_create_in(c, h, process) ==
    /\ pc[c] = "idle" /\ CanRun(c)
    /\ thread[h].alloc = "none"
    /\ \A g \in Handles : g < h => thread[g].alloc # "none"
    /\ \E p \in (IF process = NULL THEN dmosi_process_current(c)
                                   ELSE {process}) :
          thread' = [thread EXCEPT ![h] =
                        [thread_new(NULL, TRUE, p) EXCEPT !.handle = TaskOf(h)]]
    /\ task' = [task EXCEPT ![TaskOf(h)] = NewTask]
    /\ pc'   = [pc EXCEPT ![TaskOf(h)] = "w_tls"]
    /\ arg'  = [arg EXCEPT ![TaskOf(h)] = h]
    /\ UNCHANGED <<inCS, jtn, call, boundVars, procVars, cur>>
    /\ hist' = [hist EXCEPT ![h].reqProcess = process,
                            ![h].curProcess = dmosi_process_current(c)]

\* create called with process = NULL.
thread_create(c, h) == thread_create_in(c, h, NULL)

\* ------------------------------------------------------- thread_wrapper
\* Mutant of thread_wrapper_tls: the handle is not bound into the TLS slot.
thread_wrapper_tls_Skip(t) ==
    /\ pc[t] = "w_tls" /\ CanRun(t)
    /\ pc'   = [pc EXCEPT ![t] = "w_entry"]
    /\ UNCHANGED <<thread, kernelVars, arg, jtn, call, boundVars, ghostVars, procVars, cur>>

\* lines 101-103: bind the handle into the task's TLS slot.
thread_wrapper_tls(t) ==
    /\ pc[t] = "w_tls" /\ CanRun(t)
    /\ task' = vTaskSetThreadLocalStoragePointer(task, t, arg[t])
    /\ pc'   = [pc EXCEPT ![t] = "w_entry"]
    /\ UNCHANGED <<thread, inCS, arg, jtn, call, boundVars, ghostVars, procVars, cur>>

\* line 106: one step of the body of entry(arg).
entry_step(t) ==
    /\ pc[t] = "w_entry" /\ CanRun(t)
    /\ work[arg[t]] < MaxWork
    /\ work' = [work EXCEPT ![arg[t]] = @ + 1]
    /\ UNCHANGED <<thread, kernelVars, pc, arg, jtn, call, calls, stray, ghostVars, procVars, cur>>

\* line 106: entry(arg) returns.
entry_return(t) ==
    /\ pc[t] = "w_entry" /\ CanRun(t)
    /\ pc'   = [pc EXCEPT ![t] = "w_enter"]
    /\ UNCHANGED <<thread, kernelVars, arg, jtn, call, boundVars, ghostVars, procVars, cur>>

\* line 111: taskENTER_CRITICAL.
thread_wrapper_enter(t) ==
    /\ pc[t] = "w_enter" /\ CanRun(t) /\ inCS = NULL
    /\ inCS' = t
    /\ pc'   = [pc EXCEPT ![t] = "w_mark"]
    /\ UNCHANGED <<thread, task, arg, jtn, call, boundVars, ghostVars, procVars, cur>>

\* lines 112-114: completed = true, capture the joiner, taskEXIT_CRITICAL.
thread_wrapper_mark(t) ==
    /\ pc[t] = "w_mark" /\ CanRun(t)
    /\ \E j \in RdJoiner(arg[t]) :
          /\ thread' = WrCompleted(arg[t], TRUE)
          /\ jtn'    = [jtn EXCEPT ![t] = j]
    /\ inCS' = NULL
    /\ pc'   = [pc EXCEPT ![t] = "w_cleartls"]
    /\ UNCHANGED <<task, arg, call, boundVars, ghostVars, procVars, cur>>

\* line 118: clear the TLS slot before self-deletion.
thread_wrapper_cleartls(t) ==
    /\ pc[t] = "w_cleartls" /\ CanRun(t)
    /\ task' = vTaskSetThreadLocalStoragePointer(task, t, NULL)
    /\ pc'   = [pc EXCEPT ![t] = "w_notify"]
    /\ UNCHANGED <<thread, inCS, arg, jtn, call, boundVars, ghostVars, procVars, cur>>

\* lines 121-123: wake the captured joiner, outside the critical section.
thread_wrapper_notify(t) ==
    /\ pc[t] = "w_notify" /\ CanRun(t)
    /\ task' = xTaskNotifyGive(task, jtn[t])
    /\ pc'   = [pc EXCEPT ![t] = "w_delete"]
    /\ UNCHANGED <<thread, inCS, arg, jtn, call, boundVars, ghostVars, procVars, cur>>

\* line 129: vTaskDelete(NULL), the task deletes itself.
thread_wrapper_delete(t) ==
    /\ pc[t] = "w_delete" /\ CanRun(t)
    /\ task' \in vTaskDelete(task, t)
    /\ pc'   = [pc EXCEPT ![t] = "dead"]
    /\ UNCHANGED <<thread, inCS, arg, jtn, call, boundVars, ghostVars, procVars, cur>>

\* --------------------------------------------------------- _thread_join
\* lines 238-244: a task calls join on a handle it holds (thread != NULL).
thread_join_call(c, h) ==
    /\ pc[c] = "idle" /\ CanRun(c)
    /\ Live(h) /\ calls < MaxCalls
    /\ arg'   = [arg EXCEPT ![c] = h]
    /\ pc'    = [pc EXCEPT ![c] = "j_enter1"]
    /\ call'  = [call EXCEPT ![c] =
                    [NoCall EXCEPT !.preJoined = thread[h].joined,
                                   !.preKillOk = hist[h].killOk]]
    /\ hist'  = [hist EXCEPT ![h].joinCalls = @ + 1]
    /\ calls' = calls + 1
    /\ UNCHANGED <<thread, kernelVars, jtn, work, stray, procVars, cur>>

\* line 247: taskENTER_CRITICAL.
thread_join_enter1(c) ==
    /\ pc[c] = "j_enter1" /\ CanRun(c) /\ inCS = NULL
    /\ inCS' = c
    /\ pc'   = [pc EXCEPT ![c] = "j_check"]
    /\ UNCHANGED <<thread, task, arg, jtn, call, boundVars, ghostVars, procVars, cur>>

\* Mutant of thread_join_check: the joined test is missing.
thread_join_check_NoJoined(c) ==
    /\ pc[c] = "j_check" /\ CanRun(c)
    /\ \E jr \in RdJoiner(arg[c]), cp \in RdCompleted(arg[c]) :
          IF jr # NULL
          THEN /\ call'   = [call EXCEPT ![c].ret = E_BUSY]
               /\ pc'     = [pc EXCEPT ![c] = "j_done"]
               /\ thread' = thread
          ELSE /\ call'   = call
               /\ pc'     = [pc EXCEPT ![c] = IF cp THEN "j_enter3" ELSE "j_take"]
               /\ thread' = IF cp THEN thread ELSE WrJoiner(arg[c], c)
    /\ inCS' = NULL
    /\ UNCHANGED <<task, arg, jtn, boundVars, ghostVars, procVars, cur>>

\* Mutant of thread_join_check: the joiner test is missing.
thread_join_check_NoBusy(c) ==
    /\ pc[c] = "j_check" /\ CanRun(c)
    /\ \E jd \in RdJoined(arg[c]), cp \in RdCompleted(arg[c]) :
          IF jd
          THEN /\ call'   = [call EXCEPT ![c].ret = E_INVAL]
               /\ pc'     = [pc EXCEPT ![c] = "j_done"]
               /\ thread' = thread
          ELSE /\ call'   = call
               /\ pc'     = [pc EXCEPT ![c] = IF cp THEN "j_enter3" ELSE "j_take"]
               /\ thread' = IF cp THEN thread ELSE WrJoiner(arg[c], c)
    /\ inCS' = NULL
    /\ UNCHANGED <<task, arg, jtn, boundVars, ghostVars, procVars, cur>>

\* Mutant of thread_join_check: the -EBUSY return leaves the critical
\* section entered.
thread_join_check_KeepCS(c) ==
    /\ pc[c] = "j_check" /\ CanRun(c)
    /\ \E jd \in RdJoined(arg[c]), jr \in RdJoiner(arg[c]),
          cp \in RdCompleted(arg[c]) :
          IF jd
          THEN /\ call'   = [call EXCEPT ![c].ret = E_INVAL]
               /\ pc'     = [pc EXCEPT ![c] = "j_done"]
               /\ thread' = thread
               /\ inCS'   = NULL
          ELSE IF jr # NULL
          THEN /\ call'   = [call EXCEPT ![c].ret = E_BUSY]
               /\ pc'     = [pc EXCEPT ![c] = "j_done"]
               /\ thread' = thread
               /\ inCS'   = inCS
          ELSE /\ call'   = call
               /\ pc'     = [pc EXCEPT ![c] = IF cp THEN "j_enter3" ELSE "j_take"]
               /\ thread' = IF cp THEN thread ELSE WrJoiner(arg[c], c)
               /\ inCS'   = NULL
    /\ UNCHANGED <<task, arg, jtn, boundVars, ghostVars, procVars, cur>>

\* lines 249-267: refuse a joined handle (-EINVAL) and a handle that has a
\* joiner (-EBUSY); else read completed and, if it is false, register the
\* caller as joiner; taskEXIT_CRITICAL on every path.
thread_join_check(c) ==
    /\ pc[c] = "j_check" /\ CanRun(c)
    /\ \E jd \in RdJoined(arg[c]), jr \in RdJoiner(arg[c]),
          cp \in RdCompleted(arg[c]) :
          IF jd
          THEN /\ call'   = [call EXCEPT ![c].ret = E_INVAL]
               /\ pc'     = [pc EXCEPT ![c] = "j_done"]
               /\ thread' = thread
          ELSE IF jr # NULL
          THEN /\ call'   = [call EXCEPT ![c].ret = E_BUSY]
               /\ pc'     = [pc EXCEPT ![c] = "j_done"]
               /\ thread' = thread
          ELSE /\ call'   = call
               /\ pc'     = [pc EXCEPT ![c] = IF cp THEN "j_enter3" ELSE "j_take"]
               /\ thread' = IF cp THEN thread ELSE WrJoiner(arg[c], c)
    /\ inCS' = NULL
    /\ UNCHANGED <<task, arg, jtn, boundVars, ghostVars, procVars, cur>>

\* lines 273 and 281: ulTaskNotifyTake(pdTRUE, portMAX_DELAY) blocks while
\* the notification value is 0, then clears it.
thread_join_take(c) ==
    /\ pc[c] = "j_take" /\ CanRun(c)
    /\ task[c].notif > 0
    /\ task' = [task EXCEPT ![c].notif = 0]
    /\ call' = [call EXCEPT ![c].waited = TRUE]
    /\ pc'   = [pc EXCEPT ![c] = "j_enter2"]
    /\ UNCHANGED <<thread, inCS, arg, jtn, boundVars, ghostVars, procVars, cur>>

\* lines 277 and 282: taskENTER_CRITICAL.
thread_join_enter2(c) ==
    /\ pc[c] = "j_enter2" /\ CanRun(c) /\ inCS = NULL
    /\ inCS' = c
    /\ pc'   = [pc EXCEPT ![c] = "j_recheck"]
    /\ UNCHANGED <<thread, task, arg, jtn, call, boundVars, ghostVars, procVars, cur>>

\* Mutant of thread_join_recheck: any wake-up ends the wait.
thread_join_recheck_NoLoop(c) ==
    /\ pc[c] = "j_recheck" /\ CanRun(c)
    /\ \E cp \in RdCompleted(arg[c]) :
          /\ pc'   = [pc EXCEPT ![c] = "j_enter3"]
          /\ call' = [call EXCEPT ![c].spun = @ \/ ~cp]
    /\ inCS' = NULL
    /\ UNCHANGED <<thread, task, arg, jtn, boundVars, ghostVars, procVars, cur>>

\* lines 278-284: re-check completed after the wake; wait again if false.
thread_join_recheck(c) ==
    /\ pc[c] = "j_recheck" /\ CanRun(c)
    /\ \E cp \in RdCompleted(arg[c]) :
          /\ pc'   = [pc EXCEPT ![c] = IF cp THEN "j_enter3" ELSE "j_take"]
          /\ call' = [call EXCEPT ![c].spun = @ \/ ~cp]
    /\ inCS' = NULL
    /\ UNCHANGED <<thread, task, arg, jtn, boundVars, ghostVars, procVars, cur>>

\* line 288: taskENTER_CRITICAL.
thread_join_enter3(c) ==
    /\ pc[c] = "j_enter3" /\ CanRun(c) /\ inCS = NULL
    /\ inCS' = c
    /\ pc'   = [pc EXCEPT ![c] = "j_mark"]
    /\ UNCHANGED <<thread, task, arg, jtn, call, boundVars, ghostVars, procVars, cur>>

\* lines 289-292: joined = true, taskEXIT_CRITICAL, return 0.
thread_join_mark(c) ==
    /\ pc[c] = "j_mark" /\ CanRun(c)
    /\ thread' = WrJoined(arg[c], TRUE)
    /\ inCS'   = NULL
    /\ call'   = [call EXCEPT ![c].ret = OK]
    /\ pc'     = [pc EXCEPT ![c] = "j_done"]
    /\ hist'   = [hist EXCEPT ![arg[c]].joinOk = @ + 1]
    /\ UNCHANGED <<task, arg, jtn, boundVars, procVars, cur>>

\* --------------------------------------------------------- _thread_kill
\* lines 467-475: a task calls kill on a handle it holds (thread != NULL).
thread_kill_call(c, h) ==
    /\ pc[c] = "idle" /\ CanRun(c)
    /\ Live(h) /\ calls < MaxCalls
    /\ arg'   = [arg EXCEPT ![c] = h]
    /\ pc'    = [pc EXCEPT ![c] = "k_enter"]
    /\ call'  = [call EXCEPT ![c] =
                    [NoCall EXCEPT !.running =
                        (Alive(TaskOf(h)) /\ ~thread[h].completed)]]
    /\ hist'  = [hist EXCEPT ![h].killCalled = TRUE]
    /\ calls' = calls + 1
    /\ UNCHANGED <<thread, kernelVars, jtn, work, stray, procVars, cur>>

\* Mutant of thread_kill_enter: the joiner is woken before the flag is set.
thread_kill_enter_NotifyFirst(c) ==
    /\ pc[c] = "k_enter" /\ CanRun(c) /\ inCS = NULL
    /\ inCS' = c
    /\ \E j \in RdJoiner(arg[c]) : task' = xTaskNotifyGive(task, j)
    /\ pc'   = [pc EXCEPT ![c] = "k_mark"]
    /\ UNCHANGED <<thread, arg, jtn, call, boundVars, ghostVars, procVars, cur>>

\* line 478: taskENTER_CRITICAL.
thread_kill_enter(c) ==
    /\ pc[c] = "k_enter" /\ CanRun(c) /\ inCS = NULL
    /\ inCS' = c
    /\ pc'   = [pc EXCEPT ![c] = "k_mark"]
    /\ UNCHANGED <<thread, task, arg, jtn, call, boundVars, ghostVars, procVars, cur>>

\* Mutant of thread_kill_mark: kill leaves completed as it is.
thread_kill_mark_NoFlag(c) ==
    /\ pc[c] = "k_mark" /\ CanRun(c)
    /\ \E j \in RdJoiner(arg[c]) : jtn' = [jtn EXCEPT ![c] = j]
    /\ inCS' = NULL
    /\ pc'   = [pc EXCEPT ![c] = "k_notify"]
    /\ UNCHANGED <<thread, task, arg, call, boundVars, ghostVars, procVars, cur>>

\* lines 479-481: completed = true, capture the joiner, taskEXIT_CRITICAL.
thread_kill_mark(c) ==
    /\ pc[c] = "k_mark" /\ CanRun(c)
    /\ \E j \in RdJoiner(arg[c]) :
          /\ thread' = WrCompleted(arg[c], TRUE)
          /\ jtn'    = [jtn EXCEPT ![c] = j]
    /\ inCS' = NULL
    /\ pc'   = [pc EXCEPT ![c] = "k_notify"]
    /\ hist' = [hist EXCEPT ![arg[c]].killMarked =
                   @ \/ (Live(arg[c]) /\ ~thread[arg[c]].completed
                          /\ Alive(TaskOf(arg[c])))]
    /\ UNCHANGED <<task, arg, call, boundVars, procVars, cur>>

\* Mutant of thread_kill_notify: kill forgets to wake the joiner.
thread_kill_notify_Skip(c) ==
    /\ pc[c] = "k_notify" /\ CanRun(c)
    /\ pc'   = [pc EXCEPT ![c] = "k_delete"]
    /\ UNCHANGED <<thread, task, inCS, arg, jtn, call, boundVars, ghostVars, procVars, cur>>

\* lines 483-485: wake the captured joiner.
thread_kill_notify(c) ==
    /\ pc[c] = "k_notify" /\ CanRun(c)
    /\ task' = xTaskNotifyGive(task, jtn[c])
    /\ pc'   = [pc EXCEPT ![c] = "k_delete"]
    /\ UNCHANGED <<thread, inCS, arg, jtn, call, boundVars, ghostVars, procVars, cur>>

\* Mutant of thread_kill_delete: a kill of the caller's own handle returns.
thread_kill_delete_SelfReturns(c) ==
    /\ pc[c] = "k_delete" /\ CanRun(c)
    /\ \E th \in RdHandle(arg[c]) :
          IF th # NULL /\ th # c
          THEN task' \in vTaskDelete(task, th)
          ELSE task' = task
    /\ pc'   = [pc EXCEPT ![c] = "k_done"]
    /\ call' = [call EXCEPT ![c].ret = OK]
    /\ hist' = [hist EXCEPT ![arg[c]].killOk = @ \/ call[c].running]
    /\ UNCHANGED <<thread, inCS, arg, jtn, boundVars, procVars, cur>>

\* lines 488-495: vTaskDelete of the target's native task (of the caller
\* itself last, without returning), then return 0.
thread_kill_delete(c) ==
    /\ pc[c] = "k_delete" /\ CanRun(c)
    /\ \E th \in RdHandle(arg[c]) :
          IF th # NULL /\ th # c
          THEN /\ task' \in vTaskDelete(task, th)
               /\ pc'   = [pc EXCEPT ![c] = "k_done"]
               /\ call' = [call EXCEPT ![c].ret = OK]
               /\ hist' = [hist EXCEPT ![arg[c]].killOk = @ \/ call[c].running]
          ELSE IF th # NULL /\ th = c
          THEN /\ task' \in vTaskDelete(task, c)
               /\ pc'   = [pc EXCEPT ![c] = "dead"]
               /\ UNCHANGED <<call, hist>>
          ELSE /\ task' = task
               /\ pc'   = [pc EXCEPT ![c] = "k_done"]
               /\ call' = [call EXCEPT ![c].ret = OK]
               /\ hist' = [hist EXCEPT ![arg[c]].killOk = @ \/ call[c].running]
    /\ UNCHANGED <<thread, inCS, arg, jtn, boundVars, procVars, cur>>

\* ------------------------------------------------------ _thread_destroy
\* lines 200-206: a task calls destroy on a handle it holds (thread != NULL).
thread_destroy_call(c, h) ==
    /\ pc[c] = "idle" /\ CanRun(c)
    /\ Live(h) /\ calls < MaxCalls
    /\ arg'   = [arg EXCEPT ![c] = h]
    /\ pc'    = [pc EXCEPT ![c] = "d_check1"]
    /\ call'  = [call EXCEPT ![c] = NoCall]
    /\ hist'  = [hist EXCEPT ![h].destroyCalled = TRUE]
    /\ calls' = calls + 1
    /\ cur'   = [t \in Tasks |-> IF cur[t].h = h THEN NoCur ELSE cur[t]]
    /\ UNCHANGED <<thread, kernelVars, jtn, work, stray, procVars>>

\* line 211: touch the TLS slot only if the task has not completed.
thread_destroy_check1(c) ==
    /\ pc[c] = "d_check1" /\ CanRun(c)
    /\ \E th \in RdHandle(arg[c]), cp \in RdCompleted(arg[c]) :
          pc' = [pc EXCEPT ![c] = IF th # NULL /\ ~cp THEN "d_tls" ELSE "d_check2"]
    /\ UNCHANGED <<thread, kernelVars, arg, jtn, call, boundVars, ghostVars, procVars, cur>>

\* lines 213-216: clear the task's TLS slot if it still points to the handle.
thread_destroy_tls(c) ==
    /\ pc[c] = "d_tls" /\ CanRun(c)
    /\ \E th \in RdHandle(arg[c]) :
          task' \in IF th = NULL THEN {task}
                    ELSE IF ~Alive(th) THEN StaleCall(task)
                    ELSE IF task[th].tls = arg[c]
                    THEN {vTaskSetThreadLocalStoragePointer(task, th, NULL)}
                    ELSE {task}
    /\ pc' = [pc EXCEPT ![c] = "d_check2"]
    /\ UNCHANGED <<thread, inCS, arg, jtn, call, boundVars, ghostVars, procVars, cur>>

\* Mutant of thread_destroy_check2: the caller's own task is not excluded.
thread_destroy_check2_NoSelf(c) ==
    /\ pc[c] = "d_check2" /\ CanRun(c)
    /\ \E th \in RdHandle(arg[c]), cp \in RdCompleted(arg[c]) :
          pc' = [pc EXCEPT ![c] =
                    IF ~cp /\ th # NULL THEN "d_delete" ELSE "d_free"]
    /\ UNCHANGED <<thread, kernelVars, arg, jtn, call, boundVars, ghostVars, procVars, cur>>

\* line 222: delete the task only if not completed and not the caller.
thread_destroy_check2(c) ==
    /\ pc[c] = "d_check2" /\ CanRun(c)
    /\ \E th \in RdHandle(arg[c]), cp \in RdCompleted(arg[c]) :
          pc' = [pc EXCEPT ![c] =
                    IF ~cp /\ th # NULL /\ th # c THEN "d_delete" ELSE "d_free"]
    /\ UNCHANGED <<thread, kernelVars, arg, jtn, call, boundVars, ghostVars, procVars, cur>>

\* Mutant of thread_destroy_delete: destroy also marks the thread completed.
thread_destroy_delete_Mark(c) ==
    /\ pc[c] = "d_delete" /\ CanRun(c)
    /\ \E th \in RdHandle(arg[c]) :
          task' \in IF th # NULL THEN vTaskDelete(task, th) ELSE {task}
    /\ thread' = WrCompleted(arg[c], TRUE)
    /\ pc' = [pc EXCEPT ![c] = "d_free"]
    /\ UNCHANGED <<inCS, arg, jtn, call, boundVars, ghostVars, procVars, cur>>

\* line 223: vTaskDelete(thread->handle).
thread_destroy_delete(c) ==
    /\ pc[c] = "d_delete" /\ CanRun(c)
    /\ \E th \in RdHandle(arg[c]) :
          task' \in IF th # NULL THEN vTaskDelete(task, th) ELSE {task}
    /\ pc' = [pc EXCEPT ![c] = "d_free"]
    /\ UNCHANGED <<thread, inCS, arg, jtn, call, boundVars, ghostVars, procVars, cur>>

\* line 226: vPortFree(thread).
thread_destroy_free(c) ==
    /\ pc[c] = "d_free" /\ CanRun(c)
    /\ thread' = [thread EXCEPT ![arg[c]].alloc = "freed"]
    /\ pc'     = [pc EXCEPT ![c] = "d_done"]
    /\ UNCHANGED <<kernelVars, arg, jtn, call, boundVars, ghostVars, procVars, cur>>

\* The API call returns to the application, which may call again (a task
\* made by create is back in its entry function, and its thread_wrapper
\* frame still has its `thread` parameter).
api_return(c) ==
    /\ pc[c] \in {"j_done", "k_done", "d_done", "q_done", "c_done", "e_done",
                "in_done", "dn_done", "t_done", "pw_done", "pk_done",
                "pn_done", "gi_done"}
    /\ CanRun(c)
    /\ pc'   = [pc EXCEPT ![c] = IF c \in Callers THEN "idle" ELSE "w_entry"]
    /\ arg'  = [arg EXCEPT ![c] = IF c \in Callers THEN NULL ELSE @]
    /\ jtn'  = [jtn EXCEPT ![c] = NULL]
    /\ call' = [call EXCEPT ![c] = NoCall]
    /\ boot' = IF pc[c] \in {"in_done", "dn_done"}
               THEN Append(boot, <<pc[c], call[c].ret>>)
               ELSE boot
    /\ UNCHANGED <<thread, kernelVars, boundVars, ghostVars, g_init_process,
                   g_system_process, proc, sysVars, cur>>

\* ------------------------------------------------- other notifications
\* A task notification that reaches task t from outside the thread API:
\* _process_kill gives one to process->waiter, a slot that keeps naming a
\* task after its _process_wait has returned.
process_kill_notify(t) ==
    /\ t \in Callers /\ Alive(t) /\ inCS = NULL
    /\ pc[t] = "j_take"
    /\ stray < MaxStray
    /\ stray' = stray + 1
    /\ task'  = xTaskNotifyGive(task, t)
    /\ UNCHANGED <<thread, inCS, pc, arg, jtn, call, calls, work, ghostVars, procVars, cur>>

\* The application code of task t is running and can call the API: an
\* application task between two calls, or a created thread inside entry.
AtApp(t) == pc[t] \in {"idle", "w_entry"} /\ CanRun(t)

\* ------------------------------------------------------ _thread_current
\* lines 316-344, with an allocation that succeeds (one that fails returns
\* NULL and changes nothing): return the handle in
\* the caller's TLS slot; if the slot is empty, make a handle with
\* entry = NULL for the running task (process: the init-time fallback if
\* set, else the current process) and bind it into the slot.
thread_current_body(t) ==
    /\ LET stored == task[t].tls
           h      == LazyOf(t)
       IN IF stored # NULL
          THEN /\ cur' = [cur EXCEPT ![t] =
                             [h |-> stored, again |-> (cur[t].h = stored)]]
               /\ UNCHANGED <<thread, task, hist>>
          ELSE /\ thread[h].alloc # "live"
               /\ \E p \in (IF g_init_process # NULL THEN {g_init_process}
                                           ELSE dmosi_process_current(t)) :
                     thread' = [thread EXCEPT ![h] = thread_new(t, FALSE, p)]
               /\ task' = vTaskSetThreadLocalStoragePointer(task, t, h)
               /\ cur'  = [cur EXCEPT ![t] = [h |-> h, again |-> FALSE]]
               /\ hist' = [hist EXCEPT ![h] =
                              [NoHist EXCEPT
                                  !.reqProcess = g_init_process,
                                  !.curProcess = dmosi_process_current(t)]]

\* _thread_current called by the application.
thread_current(t) ==
    /\ AtApp(t)
    /\ thread_current_body(t)
    /\ UNCHANGED <<inCS, pc, arg, jtn, call, boundVars, procVars>>

\* ------------------------------------------- _thread_create, failing
NULL_HANDLE == "NULL"

\* lines 161-164: thread_new fails (pvPortMalloc), create returns NULL.
thread_create_nomem(c) ==
    /\ AtApp(c) /\ c \in Callers
    /\ pc'   = [pc EXCEPT ![c] = "c_done"]
    /\ call' = [call EXCEPT ![c] = [NoCall EXCEPT !.ret = NULL_HANDLE]]
    /\ UNCHANGED <<thread, kernelVars, arg, jtn, boundVars, ghostVars,
                   procVars, cur>>

\* Mutant of thread_create_nospawn: the handle is not freed.
thread_create_nospawn_Leak(c, h) ==
    /\ AtApp(c) /\ c \in Callers
    /\ thread[h].alloc = "none"
    /\ \E p \in dmosi_process_current(c) :
          thread' = [thread EXCEPT ![h] = thread_new(NULL, TRUE, p)]
    /\ pc'   = [pc EXCEPT ![c] = "c_done"]
    /\ call' = [call EXCEPT ![c] = [NoCall EXCEPT !.ret = NULL_HANDLE]]
    /\ UNCHANGED <<kernelVars, arg, jtn, boundVars, ghostVars, procVars, cur>>

\* lines 161-182: thread_new succeeds, xTaskCreate fails (no task is made,
\* thread->handle stays NULL): vPortFree(thread), create returns NULL.  The
\* block was never visible outside the call: it is back in the heap.
thread_create_nospawn(c, h) ==
    /\ AtApp(c) /\ c \in Callers
    /\ thread[h].alloc = "none"
    /\ thread' = [thread EXCEPT ![h] = NoThread]
    /\ pc'   = [pc EXCEPT ![c] = "c_done"]
    /\ call' = [call EXCEPT ![c] = [NoCall EXCEPT !.ret = NULL_HANDLE]]
    /\ UNCHANGED <<kernelVars, arg, jtn, boundVars, ghostVars, procVars, cur>>

\* --------------------------------------------------------------- queries
\* lines 375-384: get_name is called on a handle (thread != NULL).
thread_get_name(c, h) ==
    /\ AtApp(c) /\ c \in Callers
    /\ Live(h) /\ calls < MaxCalls
    /\ arg'   = [arg EXCEPT ![c] = h]
    /\ pc'    = [pc EXCEPT ![c] = "n_kernel"]
    /\ call'  = [call EXCEPT ![c] = NoCall]
    /\ calls' = calls + 1
    /\ UNCHANGED <<thread, kernelVars, jtn, work, stray, ghostVars,
                   procVars, cur>>

\* lines 423-431: get_priority is called on a handle (thread != NULL).
thread_get_priority(c, h) ==
    /\ AtApp(c) /\ c \in Callers
    /\ Live(h) /\ calls < MaxCalls
    /\ arg'   = [arg EXCEPT ![c] = h]
    /\ pc'    = [pc EXCEPT ![c] = "p_kernel"]
    /\ call'  = [call EXCEPT ![c] = NoCall]
    /\ calls' = calls + 1
    /\ UNCHANGED <<thread, kernelVars, jtn, work, stray, ghostVars,
                   procVars, cur>>

\* lines 386 and 433: pcTaskGetName(thread->handle) and
\* uxTaskPriorityGet(thread->handle); a NULL handle means the calling task.
thread_query_kernel(c) ==
    /\ pc[c] \in {"n_kernel", "p_kernel"} /\ CanRun(c)
    /\ \E th \in RdHandle(arg[c]) :
          task' \in IF th = NULL \/ Alive(th) THEN {task} ELSE StaleCall(task)
    /\ pc'   = [pc EXCEPT ![c] = "q_done"]
    /\ call' = [call EXCEPT ![c].ret = "value"]
    /\ UNCHANGED <<thread, inCS, arg, jtn, boundVars, ghostVars, procVars, cur>>

\* lines 605-616: get_info is called on a handle (thread, info != NULL).
thread_get_info(c, h) ==
    /\ AtApp(c) /\ c \in Callers
    /\ Live(h) /\ calls < MaxCalls
    /\ arg'   = [arg EXCEPT ![c] = h]
    /\ pc'    = [pc EXCEPT ![c] = "i_check"]
    /\ call'  = [call EXCEPT ![c] = NoCall]
    /\ calls' = calls + 1
    /\ UNCHANGED <<thread, kernelVars, jtn, work, stray, ghostVars,
                   procVars, cur>>

\* lines 623-631: a NULL native handle, or a handle made by create that has
\* completed, is reported TERMINATED without a kernel call.
thread_get_info_check(c) ==
    /\ pc[c] = "i_check" /\ CanRun(c)
    /\ \E th \in RdHandle(arg[c]), en \in RdEntry(arg[c]),
          cp \in RdCompleted(arg[c]) :
          IF th = NULL \/ (en /\ cp)
          THEN /\ pc'   = [pc EXCEPT ![c] = "q_done"]
               /\ call' = [call EXCEPT ![c].ret = "TERMINATED"]
          ELSE /\ pc'   = [pc EXCEPT ![c] = "i_kernel"]
               /\ call' = call
    /\ UNCHANGED <<thread, kernelVars, arg, jtn, boundVars, ghostVars,
                   procVars, cur>>

\* lines 633-656: vTaskGetInfo(thread->handle) and the mapping of the
\* kernel's task state (eDeleted: TERMINATED; any other state of an
\* existing task is a live state).
thread_get_info_kernel(c) ==
    /\ pc[c] = "i_kernel" /\ CanRun(c)
    /\ \E th \in RdHandle(arg[c]) :
          IF th # NULL /\ Alive(th)
          THEN /\ task' = task
               /\ call' = [call EXCEPT ![c].ret = "LIVE"]
          ELSE /\ task' \in (IF th = NULL THEN {task} ELSE StaleCall(task))
               /\ \E st \in {"LIVE", "TERMINATED"} :
                     call' = [call EXCEPT ![c].ret = st]
    /\ pc' = [pc EXCEPT ![c] = "q_done"]
    /\ UNCHANGED <<thread, inCS, arg, jtn, boundVars, ghostVars, procVars, cur>>

\* ------------------------------------------- calls on the caller's handle
\* kill(current(), status): the task kills the handle it holds from
\* _thread_current (a created thread: the handle of its thread_wrapper).
thread_kill_self(t) ==
    /\ AtApp(t)
    /\ cur[t].h # NULL /\ Live(cur[t].h) /\ calls < MaxCalls
    /\ t \notin Callers => cur[t].h = arg[t]
    /\ arg'   = [arg EXCEPT ![t] = cur[t].h]
    /\ pc'    = [pc EXCEPT ![t] = "k_enter"]
    /\ call'  = [call EXCEPT ![t] = NoCall]
    /\ hist'  = [hist EXCEPT ![cur[t].h].killCalled = TRUE]
    /\ calls' = calls + 1
    /\ UNCHANGED <<thread, kernelVars, jtn, work, stray, procVars, cur>>

\* destroy(current()) inside a thread made by create.
thread_destroy_self(t) ==
    /\ AtApp(t) /\ t \notin Callers
    /\ cur[t].h # NULL /\ Live(cur[t].h) /\ calls < MaxCalls
    /\ cur[t].h = arg[t]
    /\ pc'    = [pc EXCEPT ![t] = "d_check1"]
    /\ call'  = [call EXCEPT ![t] = NoCall]
    /\ hist'  = [hist EXCEPT ![cur[t].h].destroyCalled = TRUE]
    /\ calls' = calls + 1
    /\ cur'   = [u \in Tasks |-> IF cur[u].h = cur[t].h THEN NoCur ELSE cur[u]]
    /\ UNCHANGED <<thread, kernelVars, arg, jtn, work, stray, procVars>>


Next ==
    \/ \E c \in Callers, h \in Handles : thread_create(c, h)
    \/ \E t \in Tasks : thread_wrapper_tls(t)
    \/ \E t \in Tasks : entry_step(t)
    \/ \E t \in Tasks : entry_return(t)
    \/ \E t \in Tasks : thread_wrapper_enter(t)
    \/ \E t \in Tasks : thread_wrapper_mark(t)
    \/ \E t \in Tasks : thread_wrapper_cleartls(t)
    \/ \E t \in Tasks : thread_wrapper_notify(t)
    \/ \E t \in Tasks : thread_wrapper_delete(t)
    \/ \E c \in Callers, h \in Handles : thread_join_call(c, h)
    \/ \E c \in Callers : thread_join_enter1(c)
    \/ \E c \in Callers : thread_join_check(c)
    \/ \E c \in Callers : thread_join_take(c)
    \/ \E c \in Callers : thread_join_enter2(c)
    \/ \E c \in Callers : thread_join_recheck(c)
    \/ \E c \in Callers : thread_join_enter3(c)
    \/ \E c \in Callers : thread_join_mark(c)
    \/ \E c \in Callers, h \in Handles : thread_kill_call(c, h)
    \/ \E c \in Callers : thread_kill_enter(c)
    \/ \E c \in Callers : thread_kill_mark(c)
    \/ \E c \in Callers : thread_kill_notify(c)
    \/ \E c \in Callers : thread_kill_delete(c)
    \/ \E c \in Callers, h \in Handles : thread_destroy_call(c, h)
    \/ \E c \in Callers : thread_destroy_check1(c)
    \/ \E c \in Callers : thread_destroy_tls(c)
    \/ \E c \in Callers : thread_destroy_check2(c)
    \/ \E c \in Callers : thread_destroy_delete(c)
    \/ \E c \in Callers : thread_destroy_free(c)
    \/ \E c \in Callers : api_return(c)
    \/ \E t \in Callers : process_kill_notify(t)

Spec == Init /\ [][Next]_vars

\* -------------------------------------------------------------- fairness
\* The steps task t takes on its own once it is inside thread_wrapper or an
\* API call (not the application's decision to call, and not the entry
\* function, which may run for ever).
Proceed(t) ==
    \/ thread_wrapper_tls(t)
    \/ thread_wrapper_enter(t)
    \/ thread_wrapper_mark(t)
    \/ thread_wrapper_cleartls(t)
    \/ thread_wrapper_notify(t)
    \/ thread_wrapper_delete(t)
    \/ thread_join_enter1(t)
    \/ thread_join_check(t)
    \/ thread_join_take(t)
    \/ thread_join_enter2(t)
    \/ thread_join_recheck(t)
    \/ thread_join_enter3(t)
    \/ thread_join_mark(t)
    \/ thread_kill_enter(t)
    \/ thread_kill_mark(t)
    \/ thread_kill_notify(t)
    \/ thread_kill_delete(t)
    \/ thread_destroy_check1(t)
    \/ thread_destroy_tls(t)
    \/ thread_destroy_check2(t)
    \/ thread_destroy_delete(t)
    \/ thread_destroy_free(t)

\* Fair scheduling: a task that stays ready is eventually run.
FairSpec == Spec /\ \A t \in Tasks : WF_vars(Proceed(t))

\* Fair scheduling of threads whose entry function returns.
FairEntrySpec == FairSpec /\ \A t \in Tasks : WF_vars(entry_return(t))

\* ------------------------------------------- handles of running tasks
\* The steps of thread_wrapper, of any task.
WrapperNext ==
    \/ \E t \in Tasks : thread_wrapper_tls(t)
    \/ \E t \in Tasks : entry_return(t)
    \/ \E t \in Tasks : thread_wrapper_enter(t)
    \/ \E t \in Tasks : thread_wrapper_mark(t)
    \/ \E t \in Tasks : thread_wrapper_cleartls(t)
    \/ \E t \in Tasks : thread_wrapper_notify(t)
    \/ \E t \in Tasks : thread_wrapper_delete(t)

\* The steps inside join, kill and destroy, of any task.
JoinNext ==
    \/ \E c \in Callers : thread_join_enter1(c)
    \/ \E c \in Callers : thread_join_check(c)
    \/ \E c \in Callers : thread_join_take(c)
    \/ \E c \in Callers : thread_join_enter2(c)
    \/ \E c \in Callers : thread_join_recheck(c)
    \/ \E c \in Callers : thread_join_enter3(c)
    \/ \E c \in Callers : thread_join_mark(c)

KillNext ==
    \/ \E t \in Tasks : thread_kill_enter(t)
    \/ \E t \in Tasks : thread_kill_mark(t)
    \/ \E t \in Tasks : thread_kill_notify(t)
    \/ \E t \in Tasks : thread_kill_delete(t)

DestroyNext ==
    \/ \E t \in Tasks : thread_destroy_check1(t)
    \/ \E t \in Tasks : thread_destroy_tls(t)
    \/ \E t \in Tasks : thread_destroy_check2(t)
    \/ \E t \in Tasks : thread_destroy_delete(t)
    \/ \E t \in Tasks : thread_destroy_free(t)

\* join and destroy on the handles that create makes and on the handles
\* that _thread_current makes for tasks that have none.
LazyNext ==
    \/ \E c \in Callers, h \in Handles : thread_create(c, h)
    \/ WrapperNext
    \/ \E t \in Tasks : thread_current(t)
    \/ \E c \in Callers, h \in AllHandles : thread_join_call(c, h)
    \/ JoinNext
    \/ \E c \in Callers, h \in AllHandles : thread_destroy_call(c, h)
    \/ DestroyNext
    \/ \E t \in Tasks : api_return(t)

LazySpec == Init /\ [][LazyNext]_vars

\* A task that kills itself: kill on the handle of the calling context,
\* with other tasks joining that handle.
SelfKillNext ==
    \/ \E c \in Callers, h \in Handles : thread_create(c, h)
    \/ WrapperNext
    \/ \E t \in Tasks : thread_current(t)
    \/ \E c \in Callers, h \in AllHandles : thread_join_call(c, h)
    \/ JoinNext
    \/ \E t \in Tasks : thread_kill_self(t)
    \/ KillNext
    \/ \E t \in Tasks : api_return(t)

SelfKillSpec == Init /\ [][SelfKillNext]_vars

\* The handle of the calling context: _thread_current from any task, and
\* destroy of a handle by its own task and by other tasks.
OwnNext ==
    \/ \E c \in Callers, h \in Handles : thread_create(c, h)
    \/ WrapperNext
    \/ \E t \in Tasks : thread_current(t)
    \/ \E c \in Callers : \E h \in Handles \cup {LazyOf(c)} :
          thread_destroy_call(c, h)
    \/ \E t \in Tasks : thread_destroy_self(t)
    \/ DestroyNext
    \/ \E t \in Tasks : api_return(t)

OwnSpec == Init /\ [][OwnNext]_vars

\* create with its failure paths, and the queries on created handles.
QueryNext ==
    \/ \E c \in Callers, h \in Handles : thread_create(c, h)
    \/ \E c \in Callers : thread_create_nomem(c)
    \/ \E c \in Callers, h \in Handles : thread_create_nospawn(c, h)
    \/ WrapperNext
    \/ \E c \in Callers, h \in Handles : thread_get_name(c, h)
    \/ \E c \in Callers, h \in Handles : thread_get_priority(c, h)
    \/ \E c \in Callers : thread_query_kernel(c)
    \/ \E c \in Callers, h \in Handles : thread_get_info(c, h)
    \/ \E c \in Callers : thread_get_info_check(c)
    \/ \E c \in Callers : thread_get_info_kernel(c)
    \/ \E t \in Tasks : api_return(t)

QuerySpec == Init /\ [][QueryNext]_vars

\* -------------------------------------------------- process association
\* dmosi_thread_set_init_process(process): sets or clears (NULL) the
\* fallback process of lazy registration.  The function is exported and
\* takes any process.
dmosi_thread_set_init_process(process) ==
    /\ inCS = NULL
    /\ process # g_init_process
    /\ g_init_process' = process
    /\ UNCHANGED <<thread, kernelVars, pc, arg, jtn, call, boundVars,
                   ghostVars, g_system_process, proc, boot, sysVars, cur>>

\* _process_set_current(process) with process != NULL, called by task t
\* whose TLS slot holds a handle: thread->process = process (with an empty
\* slot the call returns -EINVAL and changes nothing).
process_set_current(t, process) ==
    /\ AtApp(t)
    /\ task[t].tls # NULL
    /\ Live(task[t].tls)
    /\ thread[task[t].tls].process # process
    /\ thread' = [thread EXCEPT ![task[t].tls].process = process]
    /\ hist'   = [hist EXCEPT ![task[t].tls].reassigned = TRUE]
    /\ UNCHANGED <<kernelVars, pc, arg, jtn, call, boundVars, procVars, cur>>

\* lines 445-455: get_process is called on a handle (thread != NULL) and
\* returns thread->process.
thread_get_process(c, h) ==
    /\ AtApp(c) /\ c \in Callers
    /\ Live(h) /\ calls < MaxCalls
    /\ arg'   = [arg EXCEPT ![c] = h]
    /\ pc'    = [pc EXCEPT ![c] = "q_done"]
    /\ \E p \in RdProcess(h) :
          call' = [call EXCEPT ![c] = [NoCall EXCEPT !.ret = p]]
    /\ calls' = calls + 1
    /\ UNCHANGED <<thread, kernelVars, jtn, work, stray, ghostVars,
                   procVars, cur>>

\* Threads and processes: create with and without a process argument,
\* lazy registration (the first call of current by a task) with and
\* without the fallback, set-current and get_process.
ProcNext ==
    \/ \E c \in Callers, h \in Handles, p \in Processes \cup {NULL} :
          thread_create_in(c, h, p)
    \/ \E t \in Tasks : thread_wrapper_tls(t)
    \/ \E c \in Callers : task[c].tls = NULL /\ thread_current(c)
    \/ \E p \in Processes \cup {NULL} : dmosi_thread_set_init_process(p)
    \/ \E t \in Tasks, p \in Processes : process_set_current(t, p)
    \/ \E c \in Callers, h \in AllHandles : thread_get_process(c, h)
    \/ \E t \in Tasks : api_return(t)

ProcSpec == Init /\ [][ProcNext]_vars

\* -------------------------------------------------------- _init, _deinit
\* Results of _init and _deinit.
B_TRUE  == "true"
B_FALSE == "false"

\* dmosi_process_create: a block that is not in use becomes a process.
dmosi_process_create(pr, p) == [pr EXCEPT ![p] = "live"]

\* dmosi_process_destroy: the block goes back to the heap.
dmosi_process_destroy(pr, p) ==
    IF p = NULL THEN pr ELSE [pr EXCEPT ![p] = "freed"]

\* _init is called.
init_call(c) ==
    /\ AtApp(c) /\ c \in Callers
    /\ Len(boot) < MaxBoot
    /\ pc'   = [pc EXCEPT ![c] = "in_check"]
    /\ call' = [call EXCEPT ![c] = NoCall]
    /\ UNCHANGED <<thread, kernelVars, arg, jtn, boundVars, ghostVars,
                   procVars, cur>>

\* Mutant of init_check: a second call makes a second root process.
init_check_Again(c) ==
    /\ pc[c] = "in_check" /\ CanRun(c)
    /\ \E p \in ProcessBlocks :
          /\ proc[p] # "live"
          /\ proc' = dmosi_process_create(proc, p)
          /\ g_system_process' = p
          /\ pc' = [pc EXCEPT ![c] = "in_set"]
          /\ UNCHANGED call
    /\ UNCHANGED <<thread, kernelVars, arg, jtn, boundVars, ghostVars,
                   g_init_process, boot, sysVars, cur>>

\* dmosi_freertos.c lines 74-85 with a process_create that succeeds: an
\* initialised backend returns true at once; otherwise the root process
\* is created.
init_check(c) ==
    /\ pc[c] = "in_check" /\ CanRun(c)
    /\ IF g_system_process # NULL
       THEN /\ call' = [call EXCEPT ![c].ret = B_TRUE]
            /\ pc'   = [pc EXCEPT ![c] = "in_done"]
            /\ UNCHANGED <<proc, g_system_process>>
       ELSE \E p \in ProcessBlocks :
               /\ proc[p] # "live"
               /\ proc' = dmosi_process_create(proc, p)
               /\ g_system_process' = p
               /\ pc' = [pc EXCEPT ![c] = "in_set"]
               /\ UNCHANGED call
    /\ UNCHANGED <<thread, kernelVars, arg, jtn, boundVars, ghostVars,
                   g_init_process, boot, sysVars, cur>>

\* The same step in part_007 (lines 53-63): an initialised backend
\* returns false at once.
init_check_strict(c) ==
    /\ pc[c] = "in_check" /\ CanRun(c)
    /\ IF g_system_process # NULL
       THEN /\ call' = [call EXCEPT ![c].ret = B_FALSE]
            /\ pc'   = [pc EXCEPT ![c] = "in_done"]
            /\ UNCHANGED <<proc, g_system_process>>
       ELSE \E p \in ProcessBlocks :
               /\ proc[p] # "live"
               /\ proc' = dmosi_process_create(proc, p)
               /\ g_system_process' = p
               /\ pc' = [pc EXCEPT ![c] = "in_set"]
               /\ UNCHANGED call
    /\ UNCHANGED <<thread, kernelVars, arg, jtn, boundVars, ghostVars,
                   g_init_process, boot, sysVars, cur>>

\* lines 82-85: dmosi_process_create fails, _init returns false.
init_check_nomem(c) ==
    /\ pc[c] = "in_check" /\ CanRun(c)
    /\ g_system_process = NULL
    /\ call' = [call EXCEPT ![c].ret = B_FALSE]
    /\ pc'   = [pc EXCEPT ![c] = "in_done"]
    /\ UNCHANGED <<thread, kernelVars, arg, jtn, boundVars, ghostVars,
                   procVars, cur>>

\* line 89: dmosi_thread_set_init_process(g_system_process).
init_set(c) ==
    /\ pc[c] = "in_set" /\ CanRun(c)
    /\ g_init_process' = g_system_process
    /\ pc' = [pc EXCEPT ![c] = "in_boot"]
    /\ UNCHANGED <<thread, kernelVars, arg, jtn, call, boundVars, ghostVars,
                   g_system_process, proc, boot, sysVars, cur>>

\* line 94: dmosi_thread_current() registers the calling task.
init_boot(c) ==
    /\ pc[c] = "in_boot" /\ CanRun(c)
    /\ thread_current_body(c)
    /\ pc' = [pc EXCEPT ![c] = "in_clear"]
    /\ UNCHANGED <<inCS, arg, jtn, call, boundVars, procVars>>

\* lines 94-99: dmosi_thread_current() returns NULL (thread_new fails):
\* the fallback is cleared, the root process destroyed, _init returns false.
init_boot_nomem(c) ==
    /\ pc[c] = "in_boot" /\ CanRun(c)
    /\ task[c].tls = NULL
    /\ g_init_process'   = NULL
    /\ proc'             = dmosi_process_destroy(proc, g_system_process)
    /\ g_system_process' = NULL
    /\ call' = [call EXCEPT ![c].ret = B_FALSE]
    /\ pc'   = [pc EXCEPT ![c] = "in_done"]
    /\ UNCHANGED <<thread, kernelVars, arg, jtn, boundVars, ghostVars, boot, sysVars,
                   cur>>

\* Mutant of init_clear: the fallback is left set.
init_clear_Keep(c) ==
    /\ pc[c] = "in_clear" /\ CanRun(c)
    /\ call' = [call EXCEPT ![c].ret = B_TRUE]
    /\ pc'   = [pc EXCEPT ![c] = "in_done"]
    /\ UNCHANGED <<thread, kernelVars, arg, jtn, boundVars, ghostVars,
                   procVars, cur>>

\* lines 103-105: the fallback is cleared, _init returns true.
init_clear(c) ==
    /\ pc[c] = "in_clear" /\ CanRun(c)
    /\ g_init_process' = NULL
    /\ call' = [call EXCEPT ![c].ret = B_TRUE]
    /\ pc'   = [pc EXCEPT ![c] = "in_done"]
    /\ UNCHANGED <<thread, kernelVars, arg, jtn, boundVars, ghostVars,
                   g_system_process, proc, boot, sysVars, cur>>

\* _deinit is called.
deinit_call(c) ==
    /\ AtApp(c) /\ c \in Callers
    /\ Len(boot) < MaxBoot
    /\ pc'   = [pc EXCEPT ![c] = "dn_check"]
    /\ call' = [call EXCEPT ![c] = NoCall]
    /\ UNCHANGED <<thread, kernelVars, arg, jtn, boundVars, ghostVars,
                   procVars, cur>>

\* Mutant of deinit_check: the calling task is unregistered also when the
\* backend is not initialised.
deinit_check_Always(c) ==
    /\ pc[c] = "dn_check" /\ CanRun(c)
    /\ g_init_process' = NULL
    /\ pc' = [pc EXCEPT ![c] = "dn_unreg"]
    /\ UNCHANGED <<thread, kernelVars, arg, jtn, call, boundVars, ghostVars,
                   g_system_process, proc, boot, sysVars, cur>>

\* lines 119-126: a backend that is not initialised returns true at once;
\* otherwise the fallback is cleared.
deinit_check(c) ==
    /\ pc[c] = "dn_check" /\ CanRun(c)
    /\ IF g_system_process = NULL
       THEN /\ call' = [call EXCEPT ![c].ret = B_TRUE]
            /\ pc'   = [pc EXCEPT ![c] = "dn_done"]
            /\ UNCHANGED g_init_process
       ELSE /\ g_init_process' = NULL
            /\ pc' = [pc EXCEPT ![c] = "dn_unreg"]
            /\ UNCHANGED call
    /\ UNCHANGED <<thread, kernelVars, arg, jtn, boundVars, ghostVars,
                   g_system_process, proc, boot, sysVars, cur>>

\* Mutant of deinit_unregister: the handle is freed, the TLS slot is left.
deinit_unregister_KeepTls(c) ==
    /\ pc[c] = "dn_unreg" /\ CanRun(c)
    /\ LET h == task[c].tls
       IN IF h = NULL
          THEN UNCHANGED <<thread, cur>>
          ELSE /\ thread' = [thread EXCEPT ![h].alloc = "freed"]
               /\ cur'    = [t \in Tasks |->
                                IF cur[t].h = h THEN NoCur ELSE cur[t]]
    /\ pc' = [pc EXCEPT ![c] = "dn_destroy"]
    /\ UNCHANGED <<task, inCS, arg, jtn, call, boundVars, ghostVars, procVars>>

\* line 130, dmosi_thread_unregister_current (dmosi_thread.c 729-743): if
\* the TLS slot of the calling task holds a handle, the slot is cleared
\* and the handle freed.
deinit_unregister(c) ==
    /\ pc[c] = "dn_unreg" /\ CanRun(c)
    /\ LET h == task[c].tls
       IN IF h = NULL
          THEN UNCHANGED <<thread, task, cur>>
          ELSE /\ task'   = vTaskSetThreadLocalStoragePointer(task, c, NULL)
               /\ thread' = [thread EXCEPT ![h].alloc = "freed"]
               /\ cur'    = [t \in Tasks |->
                                IF cur[t].h = h THEN NoCur ELSE cur[t]]
    /\ pc' = [pc EXCEPT ![c] = "dn_destroy"]
    /\ UNCHANGED <<inCS, arg, jtn, call, boundVars, ghostVars, procVars>>

\* lines 133-136: the root process is destroyed, _deinit returns true.
deinit_destroy(c) ==
    /\ pc[c] = "dn_destroy" /\ CanRun(c)
    /\ proc'             = dmosi_process_destroy(proc, g_system_process)
    /\ g_system_process' = NULL
    /\ call' = [call EXCEPT ![c].ret = B_TRUE]
    /\ pc'   = [pc EXCEPT ![c] = "dn_done"]
    /\ UNCHANGED <<thread, kernelVars, arg, jtn, boundVars, ghostVars,
                   g_init_process, boot, sysVars, cur>>

\* The task that calls _init and _deinit (the comments of both ask for one
\* context).
MainTask == 1

\* main(), the context that runs before the scheduler is started: while
\* it runs, no task is scheduled.
MAIN == Cardinality(Tasks) + 1

\* The state before the first _init: no root process, no fallback, no
\* task registered; running is NULL (the scheduler runs the tasks) or MAIN.
BootAt(running, hz) ==
    /\ thread = [h \in AllHandles |-> NoThread]
    /\ task   = [t \in Tasks |-> IF t \in Callers THEN NewTask ELSE NoTask]
    /\ inCS   = running
    /\ pc     = [t \in Tasks |-> IF t \in Callers THEN "idle" ELSE "none"]
    /\ arg    = [t \in Tasks |-> NULL]
    /\ jtn    = [t \in Tasks |-> NULL]
    /\ call   = [t \in Tasks |-> NoCall]
    /\ calls  = 0
    /\ work   = [h \in Handles |-> 0]
    /\ stray  = 0
    /\ hist   = [h \in AllHandles |-> NoHist]
    /\ g_init_process   = NULL
    /\ g_system_process = NULL
    /\ cur    = [t \in Tasks |-> NoCur]
    /\ proc   = [p \in ProcessBlocks |-> "none"]
    /\ boot   = <<>>
    /\ configTICK_RATE_HZ = hz
    /\ procs  = [p \in ProcessBlocks |-> NoProcess]
    /\ g_next_pid = 1
    /\ timer  = [k \in Timers |-> NoTimer]
    /\ stack_size = [h \in AllHandles |-> 0]
    /\ info   = [c \in Callers |-> NoInfo]

BootWith(running) == BootAt(running, DMOSI_TICK_RATE_HZ)

BootInit == BootWith(NULL)

\* The backend is initialised: the application may use the API (no API
\* is used before _init or after _deinit).
Initialised == g_system_process # NULL

\* _init (after its first check) and _deinit by the main task, while
\* every task may register itself through _thread_current.
InitCommon ==
    \/ init_call(MainTask)
    \/ init_check_nomem(MainTask)
    \/ init_set(MainTask)
    \/ init_boot(MainTask)
    \/ init_boot_nomem(MainTask)
    \/ init_clear(MainTask)
    \/ deinit_call(MainTask)
    \/ deinit_check(MainTask)
    \/ deinit_unregister(MainTask)
    \/ deinit_destroy(MainTask)
    \/ \E c \in Callers :
          Initialised /\ task[c].tls = NULL /\ thread_current(c)
    \/ \E t \in Tasks : api_return(t)

InitNext ==
    \/ init_check(MainTask)
    \/ InitCommon

InitSpec == BootInit /\ [][InitNext]_vars

\* The same with the _init of part_007.
StrictInitNext ==
    \/ init_check_strict(MainTask)
    \/ InitCommon

StrictInitSpec == BootInit /\ [][StrictInitNext]_vars

\* The backend is initialised, left and initialised again by the main
\* task, which creates and joins a thread while it is initialised.
ReinitNext ==
    \/ InitNext
    \/ \E h \in Handles :
          Initialised /\ task[MainTask].tls # NULL /\ thread_create(MainTask, h)
    \/ \E t \in Tasks : thread_wrapper_tls(t)
    \/ \E t \in Tasks : entry_return(t)
    \/ \E t \in Tasks : thread_wrapper_enter(t)
    \/ \E t \in Tasks : thread_wrapper_mark(t)
    \/ \E t \in Tasks : thread_wrapper_cleartls(t)
    \/ \E t \in Tasks : thread_wrapper_notify(t)
    \/ \E t \in Tasks : thread_wrapper_delete(t)
    \/ \E h \in Handles : Initialised /\ thread_join_call(MainTask, h)
    \/ JoinNext

ReinitSpec == BootInit /\ [][ReinitNext]_vars

\* ------------------------------------- allocation through dmosi_heap.c
\* The steps of _thread_current on an empty TLS slot when pvPortMalloc is
\* the one of dmosi_heap.c (heap_dmod.c and dmosi_freertos.c lines 12-16
\* are the same), which asks for the module name of the current thread
\* before it allocates.  call[c].depth counts the _thread_current frames
\* on the stack of task c.

\* The application calls _thread_current.
thread_current_call(c) ==
    /\ AtApp(c) /\ c \in Callers
    /\ Initialised
    /\ pc'   = [pc EXCEPT ![c] = "tc_enter"]
    /\ call' = [call EXCEPT ![c] = NoCall]
    /\ UNCHANGED <<thread, kernelVars, arg, jtn, boundVars, ghostVars,
                   procVars, cur>>

\* dmosi_freertos.c line 94: _init calls dmosi_thread_current().
init_boot_call(c) ==
    /\ pc[c] = "in_boot" /\ CanRun(c)
    /\ pc' = [pc EXCEPT ![c] = "tc_enter"]
    /\ UNCHANGED <<thread, kernelVars, arg, jtn, call, boundVars, ghostVars,
                   procVars, cur>>

\* dmosi_thread.c lines 316-335: the TLS slot is read and is empty, the
\* process is chosen, thread_new is called.
thread_current_enter(c) ==
    /\ pc[c] = "tc_enter" /\ CanRun(c)
    /\ task[c].tls = NULL
    /\ call' = [call EXCEPT ![c].depth = @ + 1]
    /\ pc'   = [pc EXCEPT ![c] = "tc_new"]
    /\ UNCHANGED <<thread, kernelVars, arg, jtn, boundVars, ghostVars,
                   procVars, cur>>

\* dmosi_thread.c line 69: thread_new calls pvPortMalloc.
thread_new_malloc(c) ==
    /\ pc[c] = "tc_new" /\ CanRun(c)
    /\ pc' = [pc EXCEPT ![c] = "tc_malloc"]
    /\ UNCHANGED <<thread, kernelVars, arg, jtn, call, boundVars, ghostVars,
                   procVars, cur>>

\* dmosi_heap.c line 17: pvPortMalloc evaluates the argument
\* dmosi_thread_get_module_name(NULL) before Dmod_MallocEx is called.
pvPortMalloc_name(c) ==
    /\ pc[c] = "tc_malloc" /\ CanRun(c)
    /\ pc' = [pc EXCEPT ![c] = "tc_name"]
    /\ UNCHANGED <<thread, kernelVars, arg, jtn, call, boundVars, ghostVars,
                   procVars, cur>>

\* dmosi_thread.c lines 401-402: thread == NULL, _thread_get_module_name
\* calls dmosi_thread_current(); the slot is written only after thread_new
\* has returned (line 341), so the new frame finds it empty again.  When
\* the stack holds no further frame the call overflows it and the task
\* faults.
thread_get_module_name_current(c) ==
    /\ pc[c] = "tc_name" /\ CanRun(c)
    /\ IF call[c].depth < MaxDepth
       THEN /\ pc' = [pc EXCEPT ![c] = "tc_enter"]
            /\ UNCHANGED task
       ELSE /\ pc' = [pc EXCEPT ![c] = "tc_overflow"]
            /\ task' = Halt(task)
    /\ UNCHANGED <<thread, inCS, arg, jtn, call, boundVars, ghostVars,
                   procVars, cur>>

\* _init by the main task and first _thread_current calls by every task,
\* built with the allocator of dmosi_heap.c.
HeapNext ==
    \/ init_call(MainTask)
    \/ init_check(MainTask)
    \/ init_check_nomem(MainTask)
    \/ init_set(MainTask)
    \/ init_boot_call(MainTask)
    \/ \E c \in Callers : thread_current_call(c)
    \/ \E c \in Callers : thread_current_enter(c)
    \/ \E c \in Callers : thread_new_malloc(c)
    \/ \E c \in Callers : pvPortMalloc_name(c)
    \/ \E c \in Callers : thread_get_module_name_current(c)
    \/ \E t \in Tasks : api_return(t)

HeapSpec == BootInit /\ [][HeapNext]_vars

\* ------------------------------------------------------- timed calls
\* pdMS_TO_TICKS of the kernel: ms * configTICK_RATE_HZ / 1000 in integer
\* arithmetic, as a TickType_t.
pdMS_TO_TICKS(ms, hz) == ((ms * hz) \div 1000) % (2^TickBits)

\* The block time that _semaphore_wait, _queue_send, _queue_receive and
\* _process_wait compute from timeout_ms (the four write the same three
\* cases).
TimeoutTicks(timeout_ms, hz) ==
    IF timeout_ms < 0 THEN portMAX_DELAY
    ELSE IF timeout_ms = 0 THEN 0
    ELSE pdMS_TO_TICKS(timeout_ms, hz)

\* A kernel call with block time ticks that obtained (got) or did not
\* obtain what it waits for: with portMAX_DELAY it returns only when it
\* has obtained it.
Blocks(ticks, got) == ticks = portMAX_DELAY => got

\* The end of _semaphore_wait, _queue_send and _queue_receive: 0 when the
\* kernel call returned pdTRUE, -EAGAIN when the block time was 0, else
\* -ETIMEDOUT.
TimedResult(ticks, got) ==
    IF got THEN OK ELSE IF ticks = 0 THEN E_AGAIN ELSE E_TIMEDOUT

timed_call(c, fn, timeout_ms, got) ==
    /\ AtApp(c) /\ c \in Callers
    /\ LET ticks == TimeoutTicks(timeout_ms, configTICK_RATE_HZ)
       IN /\ Blocks(ticks, got)
          /\ call' = [call EXCEPT ![c] =
                         [NoCall EXCEPT
                             !.ret = TimedResult(ticks, got),
                             !.tmo = [fn |-> fn, timeout_ms |-> timeout_ms,
                                      conv |-> TRUE, ticks |-> ticks]]]
    /\ pc' = [pc EXCEPT ![c] = "t_done"]
    /\ UNCHANGED <<thread, kernelVars, arg, jtn, boundVars, ghostVars,
                   procVars, cur>>

\* part_009 lines 85-114, semaphore != NULL; got: xSemaphoreTake took it.
semaphore_wait(c, timeout_ms, got) ==
    timed_call(c, "semaphore_wait", timeout_ms, got)

\* dmosi_queue.c lines 87-116, queue and item != NULL; got: xQueueSend
\* queued the item.
queue_send(c, timeout_ms, got) ==
    timed_call(c, "queue_send", timeout_ms, got)

\* dmosi_queue.c lines 130-158, queue and item != NULL; got: xQueueReceive
\* took an item.
queue_receive(c, timeout_ms, got) ==
    timed_call(c, "queue_receive", timeout_ms, got)

\* part_010 lines 182-221, process != NULL: a terminated process gives 0
\* and a process that has a waiter -EBUSY, both before the timeout is
\* looked at; else the caller waits for the notification (got: it
\* arrived), and without it the result is -EAGAIN for timeout_ms == 0 and
\* else -ETIMEDOUT.
process_wait(c, timeout_ms, terminated, busy, got) ==
    /\ AtApp(c) /\ c \in Callers
    /\ LET ticks == TimeoutTicks(timeout_ms, configTICK_RATE_HZ)
           early == terminated \/ busy
       IN /\ early \/ Blocks(ticks, got)
          /\ call' = [call EXCEPT ![c] =
                [NoCall EXCEPT
                    !.ret = IF terminated THEN OK
                            ELSE IF busy THEN E_BUSY
                            ELSE IF got THEN OK
                            ELSE IF timeout_ms = 0 THEN E_AGAIN
                            ELSE E_TIMEDOUT,
                    !.tmo = [fn |-> "process_wait",
                             timeout_ms |-> timeout_ms,
                             conv  |-> ~early,
                             ticks |-> IF early THEN 0 ELSE ticks]]]
    /\ pc' = [pc EXCEPT ![c] = "t_done"]
    /\ UNCHANGED <<thread, kernelVars, arg, jtn, boundVars, ghostVars,
                   procVars, cur>>

\* The timeouts given to the timed calls, and the tick rates of the builds.
Timeouts  == (0 - 1) .. MaxMs
TickRates == {100, 250, 1000}

TickInit == \E hz \in TickRates : BootAt(NULL, hz)

TickNext ==
    \/ \E c \in Callers, ms \in Timeouts, got \in BOOLEAN :
          semaphore_wait(c, ms, got)
    \/ \E c \in Callers, ms \in Timeouts, got \in BOOLEAN :
          queue_send(c, ms, got)
    \/ \E c \in Callers, ms \in Timeouts, got \in BOOLEAN :
          queue_receive(c, ms, got)
    \/ \E c \in Callers, ms \in Timeouts, terminated \in BOOLEAN,
          busy \in BOOLEAN, got \in BOOLEAN :
          process_wait(c, ms, terminated, busy, got)
    \/ \E t \in Tasks : api_return(t)

TickSpec == TickInit /\ [][TickNext]_vars

\* ------------------------------------- _thread_get_info: the usage fields
\* _thread_get_info once more, with the fields of dmosi_thread_info_t.
\* _thread_create, lines 150-184, with the stack size it is given: NULL
\* for a stack size of 0; otherwise thread_new keeps the size in the
\* handle (line 81).
thread_create_stack(c, h, size) ==
    /\ pc[c] = "idle" /\ CanRun(c)
    /\ thread[h].alloc = "none"
    /\ \A g \in Handles : g < h => thread[g].alloc # "none"
    /\ IF size = 0
       THEN UNCHANGED <<thread, task, pc, arg, hist, stack_size>>
       ELSE /\ \E p \in dmosi_process_current(c) :
                  thread' = [thread EXCEPT ![h] =
                      [thread_new(NULL, TRUE, p) EXCEPT !.handle = TaskOf(h)]]
            /\ stack_size' = [stack_size EXCEPT ![h] = size]
            /\ task' = [task EXCEPT ![TaskOf(h)] = NewTask]
            /\ pc'   = [pc EXCEPT ![TaskOf(h)] = "w_tls"]
            /\ arg'  = [arg EXCEPT ![TaskOf(h)] = h]
            /\ hist' = [hist EXCEPT ![h].reqProcess = NULL,
                                    ![h].curProcess = dmosi_process_current(c)]
    /\ UNCHANGED <<inCS, jtn, call, boundVars, g_init_process,
                   g_system_process, proc, boot, configTICK_RATE_HZ, procs,
                   g_next_pid, timer, info, cur>>

\* lines 605-617: -EINVAL without an info structure; otherwise get_info
\* is called on a handle (thread != NULL).
get_info_call(c, h, has_info) ==
    /\ AtApp(c) /\ c \in Callers
    /\ calls < MaxCalls
    /\ Live(h)
    /\ calls' = calls + 1
    /\ info'  = [info EXCEPT ![c] = NoInfo]
    /\ IF has_info
       THEN /\ pc'   = [pc EXCEPT ![c] = "gi_check"]
            /\ arg'  = [arg EXCEPT ![c] = h]
            /\ call' = call
       ELSE /\ pc'   = [pc EXCEPT ![c] = "gi_done"]
            /\ arg'  = arg
            /\ call' = [call EXCEPT ![c].ret = E_INVAL]
    /\ UNCHANGED <<thread, kernelVars, jtn, work, stray, ghostVars,
                   g_init_process, g_system_process, proc, boot,
                   configTICK_RATE_HZ, procs, g_next_pid, timer, stack_size,
                   cur>>

\* Mutant of get_info_terminated: the completed flag is not looked at.
get_info_terminated_NoCompleted(c) ==
    /\ pc[c] = "gi_check" /\ CanRun(c)
    /\ \E hd \in RdHandle(arg[c]) :
          IF hd = NULL
          THEN /\ info' = [info EXCEPT ![c] =
                             [NoInfo EXCEPT !.stack_total = stack_size[arg[c]],
                                            !.state = "TERMINATED"]]
               /\ call' = [call EXCEPT ![c].ret = OK]
               /\ pc'   = [pc EXCEPT ![c] = "gi_done"]
          ELSE /\ pc'   = [pc EXCEPT ![c] = "gi_query"]
               /\ UNCHANGED <<info, call>>
    /\ UNCHANGED <<thread, kernelVars, arg, jtn, boundVars, ghostVars,
                   g_init_process, g_system_process, proc, boot,
                   configTICK_RATE_HZ, procs, g_next_pid, timer, stack_size,
                   cur>>

\* lines 619-631: a handle without a native task, or one made by create
\* (entry # NULL) that has completed, is terminated: zeroed usage fields,
\* and the kernel is not asked.
get_info_terminated(c) ==
    /\ pc[c] = "gi_check" /\ CanRun(c)
    /\ \E hd \in RdHandle(arg[c]), en \in RdEntry(arg[c]),
          cp \in RdCompleted(arg[c]) :
          IF hd = NULL \/ (en /\ cp)
          THEN /\ info' = [info EXCEPT ![c] =
                             [NoInfo EXCEPT !.stack_total = stack_size[arg[c]],
                                            !.state = "TERMINATED"]]
               /\ call' = [call EXCEPT ![c].ret = OK]
               /\ pc'   = [pc EXCEPT ![c] = "gi_done"]
          ELSE /\ pc'   = [pc EXCEPT ![c] = "gi_query"]
               /\ UNCHANGED <<info, call>>
    /\ UNCHANGED <<thread, kernelVars, arg, jtn, boundVars, ghostVars,
                   g_init_process, g_system_process, proc, boot,
                   configTICK_RATE_HZ, procs, g_next_pid, timer, stack_size,
                   cur>>

\* lines 637-645: the state of the kernel mapped to dmosi_thread_state_t.
thread_state(eCurrentState) ==
    CASE eCurrentState = "eRunning"   -> "RUNNING"
      [] eCurrentState = "eReady"     -> "READY"
      [] eCurrentState = "eBlocked"   -> "BLOCKED"
      [] eCurrentState = "eSuspended" -> "SUSPENDED"
      [] eCurrentState = "eDeleted"   -> "TERMINATED"
      [] OTHER                        -> "TERMINATED"

\* What vTaskGetInfo and the run-time counter report: the state of the
\* task, its smallest free stack in words, the width of a stack word,
\* the task's and the total run-time counters, and the clock ticks per
\* second of a POSIX build (0: none, or another architecture).
TaskStates     == {"eRunning", "eDeleted", "eInvalid"}
HighWaterMarks == {1, 3}
StackTypeSizes == {4}
Counters       == {0, 1, 2}
ClkTcks        == {0, 2}
StackSizes     == {0, 8}

\* lines 633-693: vTaskGetInfo, then stack_peak = stack_size - free bytes
\* or 0, stack_current = 0, cpu_usage = counter / total * 100 capped at
\* 100 (a float in the code, whole per cent here), and runtime_ms from
\* the counter.  A task deleted since the check is read from a released
\* control block: the kernel may report anything of these sets for it.
\* eState, hwm and counter are eCurrentState, usStackHighWaterMark and
\* ulRunTimeCounter of the TaskStatus_t.
get_info_usage(c, eState, hwm, word, counter, total_runtime, clk_tck) ==
    /\ pc[c] = "gi_query" /\ CanRun(c)
    /\ LET free_bytes == hwm * word
           size       == stack_size[arg[c]]
           peak_usage == IF size > free_bytes THEN size - free_bytes ELSE 0
           usage      == (counter * 100) \div total_runtime
       IN  info' = [info EXCEPT ![c] =
              [state         |-> thread_state(eState),
               stack_total   |-> size,
               stack_current |-> 0,
               stack_peak    |-> peak_usage,
               cpu_usage     |-> IF total_runtime > 0
                                 THEN IF usage < 100 THEN usage ELSE 100
                                 ELSE 0,
               runtime_ms    |-> IF clk_tck > 0
                                 THEN (counter \div clk_tck) * 1000
                                      + ((counter % clk_tck) * 1000)
                                            \div clk_tck
                                 ELSE 0,
               queried       |-> TRUE,
               free_bytes    |-> free_bytes]]
    /\ call' = [call EXCEPT ![c].ret = OK]
    /\ pc'   = [pc EXCEPT ![c] = "gi_done"]
    /\ UNCHANGED <<thread, kernelVars, arg, jtn, boundVars, ghostVars,
                   g_init_process, g_system_process, proc, boot,
                   configTICK_RATE_HZ, procs, g_next_pid, timer, stack_size,
                   cur>>

\* _thread_get_info next to create and completion.
InfoNext ==
    \/ \E c \in Callers, h \in Handles, size \in StackSizes :
          thread_create_stack(c, h, size)
    \/ \E t \in Tasks :
          \/ thread_wrapper_tls(t)     \/ entry_return(t)
          \/ thread_wrapper_enter(t)   \/ thread_wrapper_mark(t)
          \/ thread_wrapper_cleartls(t) \/ thread_wrapper_notify(t)
          \/ thread_wrapper_delete(t)
    \/ \E c \in Callers, h \in Handles, has_info \in BOOLEAN :
          get_info_call(c, h, has_info)
    \/ \E c \in Callers : get_info_terminated(c)
    \/ \E c \in Callers, st \in TaskStates, hwm \in HighWaterMarks,
          word \in StackTypeSizes, counter \in Counters \ {0},
          total \in Counters, clk_tck \in ClkTcks :
          get_info_usage(c, st, hwm, word, counter, total, clk_tck)
    \/ \E t \in Tasks : api_return(t)

InfoSpec == Init /\ [][InfoNext]_vars

\* ------------------------------------------------------------ timers
\* dmosi_time.c lines 49-56: pdMS_TO_TICKS, and at least one tick for a
\* period that is not 0.
ms_to_ticks(ms, hz) ==
    LET ticks == pdMS_TO_TICKS(ms, hz)
    IN  IF ms > 0 /\ ticks = 0 THEN 1 ELSE ticks

\* _timer_create, lines 93-123: NULL for no callback or a period of 0 and
\* when pvPortMalloc or xTimerCreate fails (ok = FALSE); otherwise the
\* timer exists with the period converted to ticks.
timer_create(k, callback, period_ms, ok) ==
    /\ timer[k].alloc = "none"
    /\ timer' = IF callback = NULL \/ period_ms = 0 \/ ~ok
                THEN timer
                ELSE [timer EXCEPT ![k] =
                        [alloc        |-> "live",
                         period_ticks |-> ms_to_ticks(period_ms,
                                                      configTICK_RATE_HZ),
                         period_ms    |-> period_ms,
                         period_got   |-> NoPeriod]]
    /\ UNCHANGED <<thread, kernelVars, pc, arg, jtn, call, boundVars,
                   ghostVars, g_init_process, g_system_process, proc, boot,
                   configTICK_RATE_HZ, procs, g_next_pid, stack_size, info,
                   cur>>

\* _timer_destroy, lines 132-143: nothing for NULL; otherwise the kernel
\* timer is deleted and the structure freed.
timer_destroy(k) ==
    /\ k # NULL => timer[k].alloc = "live"
    /\ timer' = IF k = NULL THEN timer ELSE [timer EXCEPT ![k] = NoTimer]
    /\ UNCHANGED <<thread, kernelVars, pc, arg, jtn, call, boundVars,
                   ghostVars, g_init_process, g_system_process, proc, boot,
                   configTICK_RATE_HZ, procs, g_next_pid, stack_size, info,
                   cur>>

\* _timer_set_period, lines 214-225: -EINVAL for NULL or a period of 0;
\* otherwise xTimerChangePeriod with the period converted to ticks.
timer_set_period(k, period_ms) ==
    /\ k # NULL => timer[k].alloc = "live"
    /\ timer' = IF k = NULL \/ period_ms = 0
                THEN timer
                ELSE [timer EXCEPT ![k].period_ticks =
                                       ms_to_ticks(period_ms,
                                                   configTICK_RATE_HZ),
                                   ![k].period_ms  = period_ms,
                                   ![k].period_got = NoPeriod]
    /\ UNCHANGED <<thread, kernelVars, pc, arg, jtn, call, boundVars,
                   ghostVars, g_init_process, g_system_process, proc, boot,
                   configTICK_RATE_HZ, procs, g_next_pid, stack_size, info,
                   cur>>

\* _timer_get_period, lines 235-244: 0 for NULL; otherwise
\* period_ticks * 1000 / configTICK_RATE_HZ in TickType_t arithmetic.
timer_get_period(k) ==
    /\ k # NULL => timer[k].alloc = "live"
    /\ timer' = IF k = NULL
                THEN timer
                ELSE [timer EXCEPT ![k].period_got =
                        ((timer[k].period_ticks * 1000) % (2^TickBits))
                            \div configTICK_RATE_HZ]
    /\ UNCHANGED <<thread, kernelVars, pc, arg, jtn, call, boundVars,
                   ghostVars, g_init_process, g_system_process, proc, boot,
                   configTICK_RATE_HZ, procs, g_next_pid, stack_size, info,
                   cur>>

\* The periods given to the timers and the callbacks.
Periods   == 0 .. MaxMs
Callbacks == {NULL, 1}

TimerNext ==
    \/ \E k \in Timers, cb \in Callbacks, ms \in Periods, ok \in BOOLEAN :
          timer_create(k, cb, ms, ok)
    \/ \E k \in Timers \cup {NULL} : timer_destroy(k)
    \/ \E k \in Timers \cup {NULL}, ms \in Periods : timer_set_period(k, ms)
    \/ \E k \in Timers \cup {NULL} : timer_get_period(k)

TimerSpec == TickInit /\ [][TimerNext]_vars

\* ----------------------------------------- _process_wait, _process_kill
\* arg[c] is the process parameter of the running call, jtn[c] the local
\* waiter_to_notify of _process_kill.
Terminated(p) == procs[p].state \in {"TERMINATED", "ZOMBIE"}

\* part_010 lines 182-188: _process_wait is called with process != NULL.
process_wait_call(c, p, timeout_ms) ==
    /\ AtApp(c) /\ c \in Callers
    /\ calls < MaxPCalls
    /\ calls' = calls + 1
    /\ arg'   = [arg EXCEPT ![c] = p]
    /\ call'  = [call EXCEPT ![c] =
                    [NoCall EXCEPT !.tmo =
                        [fn |-> "process_wait", timeout_ms |-> timeout_ms,
                         conv |-> FALSE, ticks |-> 0]]]
    /\ pc'    = [pc EXCEPT ![c] = "pw_enter"]
    /\ UNCHANGED <<thread, kernelVars, jtn, work, stray, ghostVars, procVars,
                   cur>>

\* line 190: taskENTER_CRITICAL.
process_wait_enter(c) ==
    /\ pc[c] = "pw_enter" /\ CanRun(c) /\ inCS = NULL
    /\ inCS' = c
    /\ pc'   = [pc EXCEPT ![c] = "pw_check"]
    /\ UNCHANGED <<thread, task, arg, jtn, call, boundVars, ghostVars,
                   procVars, cur>>

\* lines 191-209: a terminated process gives 0; a process that has a
\* waiter gives -EBUSY; else the caller becomes the waiter;
\* taskEXIT_CRITICAL on every path; then the block time is computed.
process_wait_check(c) ==
    /\ pc[c] = "pw_check" /\ CanRun(c)
    /\ LET p == arg[c]
       IN IF Terminated(p)
          THEN /\ call' = [call EXCEPT ![c].ret = OK]
               /\ pc'   = [pc EXCEPT ![c] = "pw_done"]
               /\ UNCHANGED procs
          ELSE IF procs[p].waiter # NULL
          THEN /\ call' = [call EXCEPT ![c].ret = E_BUSY]
               /\ pc'   = [pc EXCEPT ![c] = "pw_done"]
               /\ UNCHANGED procs
          ELSE /\ procs' = [procs EXCEPT ![p].waiter = c]
               /\ call'  = [call EXCEPT
                               ![c].tmo.conv  = TRUE,
                               ![c].tmo.ticks =
                                   TimeoutTicks(call[c].tmo.timeout_ms,
                                                configTICK_RATE_HZ)]
               /\ pc'    = [pc EXCEPT ![c] = "pw_take"]
    /\ inCS' = NULL
    /\ UNCHANGED <<thread, task, arg, jtn, boundVars, ghostVars,
                   g_init_process, g_system_process, proc, boot,
                   configTICK_RATE_HZ, g_next_pid, timer, stack_size, info,
                   cur>>

\* line 211, ulTaskNotifyTake(pdTRUE, ticks) with a notification pending
\* or arriving in time: the value is cleared, lines 213 and 222: return 0.
process_wait_take(c) ==
    /\ pc[c] = "pw_take" /\ CanRun(c)
    /\ task[c].notif > 0
    /\ task' = [task EXCEPT ![c].notif = 0]
    /\ call' = [call EXCEPT ![c].ret = OK, ![c].waited = TRUE]
    /\ pc'   = [pc EXCEPT ![c] = "pw_done"]
    /\ UNCHANGED <<thread, inCS, arg, jtn, boundVars, ghostVars, procVars,
                   cur>>

\* line 211: no notification within the block time (never with
\* portMAX_DELAY): ulTaskNotifyTake returns 0.
process_wait_timeout(c) ==
    /\ pc[c] = "pw_take" /\ CanRun(c)
    /\ task[c].notif = 0
    /\ call[c].tmo.ticks # portMAX_DELAY
    /\ pc' = [pc EXCEPT ![c] = "pw_tmo_enter"]
    /\ UNCHANGED <<thread, kernelVars, arg, jtn, call, boundVars, ghostVars,
                   procVars, cur>>

\* line 215: taskENTER_CRITICAL.
process_wait_tmo_enter(c) ==
    /\ pc[c] = "pw_tmo_enter" /\ CanRun(c) /\ inCS = NULL
    /\ inCS' = c
    /\ pc'   = [pc EXCEPT ![c] = "pw_tmo_clear"]
    /\ UNCHANGED <<thread, task, arg, jtn, call, boundVars, ghostVars,
                   procVars, cur>>

\* lines 216-218: the waiter slot is cleared, taskEXIT_CRITICAL, -EAGAIN
\* for timeout_ms == 0 and else -ETIMEDOUT.
process_wait_tmo_clear(c) ==
    /\ pc[c] = "pw_tmo_clear" /\ CanRun(c)
    /\ procs' = [procs EXCEPT ![arg[c]].waiter = NULL]
    /\ inCS'  = NULL
    /\ call'  = [call EXCEPT ![c].ret =
                    IF call[c].tmo.timeout_ms = 0 THEN E_AGAIN
                                                  ELSE E_TIMEDOUT]
    /\ pc'    = [pc EXCEPT ![c] = "pw_done"]
    /\ UNCHANGED <<thread, task, arg, jtn, boundVars, ghostVars,
                   g_init_process, g_system_process, proc, boot,
                   configTICK_RATE_HZ, g_next_pid, timer, stack_size, info,
                   cur>>

\* part_010 lines 150-156: _process_kill is called with process != NULL.
process_kill_call(c, p) ==
    /\ AtApp(c) /\ c \in Callers
    /\ calls < MaxPCalls
    /\ calls' = calls + 1
    /\ arg'   = [arg EXCEPT ![c] = p]
    /\ call'  = [call EXCEPT ![c] = NoCall]
    /\ pc'    = [pc EXCEPT ![c] = "pk_enter"]
    /\ UNCHANGED <<thread, kernelVars, jtn, work, stray, ghostVars, procVars,
                   cur>>

\* line 158: taskENTER_CRITICAL.
process_kill_enter(c) ==
    /\ pc[c] = "pk_enter" /\ CanRun(c) /\ inCS = NULL
    /\ inCS' = c
    /\ pc'   = [pc EXCEPT ![c] = "pk_mark"]
    /\ UNCHANGED <<thread, task, arg, jtn, call, boundVars, ghostVars,
                   procVars, cur>>

\* lines 159-162: state = TERMINATED, the waiter is captured,
\* taskEXIT_CRITICAL.
process_kill_mark(c) ==
    /\ pc[c] = "pk_mark" /\ CanRun(c)
    /\ procs' = [procs EXCEPT ![arg[c]].state = "TERMINATED"]
    /\ jtn'   = [jtn EXCEPT ![c] = procs[arg[c]].waiter]
    /\ inCS'  = NULL
    /\ pc'    = [pc EXCEPT ![c] = "pk_notify"]
    /\ UNCHANGED <<thread, task, arg, call, boundVars, ghostVars,
                   g_init_process, g_system_process, proc, boot,
                   configTICK_RATE_HZ, g_next_pid, timer, stack_size, info,
                   cur>>

\* lines 164-168: the captured waiter is notified, outside the critical
\* section; return 0.
process_kill_notify_waiter(c) ==
    /\ pc[c] = "pk_notify" /\ CanRun(c)
    /\ task' = xTaskNotifyGive(task, jtn[c])
    /\ call' = [call EXCEPT ![c].ret = OK]
    /\ pc'   = [pc EXCEPT ![c] = "pk_done"]
    /\ UNCHANGED <<thread, inCS, arg, jtn, boundVars, ghostVars, procVars,
                   cur>>

\* The timeouts given to _process_wait: indefinite, none, and one that
\* is at least a tick.
WaitTimeouts == {0 - 1, 0, MaxMs}

\* The application tasks wait for and kill the processes.
ProcWaitNext ==
    \/ \E c \in Callers, p \in Processes, ms \in WaitTimeouts :
          process_wait_call(c, p, ms)
    \/ \E c \in Callers : process_wait_enter(c)
    \/ \E c \in Callers : process_wait_check(c)
    \/ \E c \in Callers : process_wait_take(c)
    \/ \E c \in Callers : process_wait_timeout(c)
    \/ \E c \in Callers : process_wait_tmo_enter(c)
    \/ \E c \in Callers : process_wait_tmo_clear(c)
    \/ \E c \in Callers, p \in Processes : process_kill_call(c, p)
    \/ \E c \in Callers : process_kill_enter(c)
    \/ \E c \in Callers : process_kill_mark(c)
    \/ \E c \in Callers : process_kill_notify_waiter(c)
    \/ \E t \in Tasks : api_return(t)

ProcWaitSpec == Init /\ [][ProcWaitNext]_vars

\* join, kill and thread_wrapper together with _process_wait and
\* _process_kill on the root process.
CritNext ==
    \/ \E c \in Callers, h \in Handles : thread_create(c, h)
    \/ \E t \in Tasks : thread_wrapper_tls(t)
    \/ \E t \in Tasks : entry_return(t)
    \/ \E t \in Tasks : thread_wrapper_enter(t)
    \/ \E t \in Tasks : thread_wrapper_mark(t)
    \/ \E t \in Tasks : thread_wrapper_cleartls(t)
    \/ \E t \in Tasks : thread_wrapper_notify(t)
    \/ \E t \in Tasks : thread_wrapper_delete(t)
    \/ \E c \in Callers, h \in Handles : thread_join_call(c, h)
    \/ JoinNext
    \/ \E c \in Callers, h \in Handles : thread_kill_call(c, h)
    \/ KillNext
    \/ \E c \in Callers, ms \in WaitTimeouts :
          process_wait_call(c, g_system_process, ms)
    \/ \E c \in Callers : process_wait_enter(c)
    \/ \E c \in Callers : process_wait_check(c)
    \/ \E c \in Callers : process_wait_take(c)
    \/ \E c \in Callers : process_wait_timeout(c)
    \/ \E c \in Callers : process_wait_tmo_enter(c)
    \/ \E c \in Callers : process_wait_tmo_clear(c)
    \/ \E c \in Callers : process_kill_call(c, g_system_process)
    \/ \E c \in Callers : process_kill_enter(c)
    \/ \E c \in Callers : process_kill_mark(c)
    \/ \E c \in Callers : process_kill_notify_waiter(c)
    \/ \E t \in Tasks : api_return(t)

CritSpec == Init /\ [][CritNext]_vars

\* ------------------------- _process_create, _process_destroy, _set_id
\* part_010 lines 116-119 and 40-50: _process_create calls process_new,
\* pvPortMalloc gives the block p, the name is copied.  The block is not
\* a process yet (proc[p] = "new").
process_create_call(c, p) ==
    /\ AtApp(c) /\ c \in Callers
    /\ calls < MaxPCalls
    /\ proc[p] \notin {"live", "new"}
    /\ calls' = calls + 1
    /\ proc'  = [proc EXCEPT ![p] = "new"]
    /\ arg'   = [arg EXCEPT ![c] = p]
    /\ call'  = [call EXCEPT ![c] = NoCall]
    /\ pc'    = [pc EXCEPT ![c] = "pn_enter"]
    /\ UNCHANGED <<thread, kernelVars, jtn, work, stray, ghostVars,
                   g_init_process, g_system_process, boot, sysVars, cur>>

\* line 52: taskENTER_CRITICAL.
process_create_enter(c) ==
    /\ pc[c] = "pn_enter" /\ CanRun(c) /\ inCS = NULL
    /\ inCS' = c
    /\ pc'   = [pc EXCEPT ![c] = "pn_pid"]
    /\ UNCHANGED <<thread, task, arg, jtn, call, boundVars, ghostVars,
                   procVars, cur>>

\* lines 53-63: pid = g_next_pid++, taskEXIT_CRITICAL, the other fields
\* are set and the handle is returned.
process_create_pid(c) ==
    /\ pc[c] = "pn_pid" /\ CanRun(c)
    /\ procs'      = [procs EXCEPT ![arg[c]] = process_new(g_next_pid)]
    /\ g_next_pid' = g_next_pid + 1
    /\ proc'       = dmosi_process_create(proc, arg[c])
    /\ inCS'       = NULL
    /\ pc'         = [pc EXCEPT ![c] = "pn_done"]
    /\ UNCHANGED <<thread, task, arg, jtn, call, boundVars, ghostVars,
                   g_init_process, g_system_process, boot,
                   configTICK_RATE_HZ, timer, stack_size, info, cur>>

\* part_010 lines 132-139, _process_destroy of a process: vPortFree.
process_destroy_call(c, p) ==
    /\ AtApp(c) /\ c \in Callers
    /\ proc[p] = "live"
    /\ proc'  = dmosi_process_destroy(proc, p)
    /\ procs' = [procs EXCEPT ![p] = NoProcess]
    /\ UNCHANGED <<thread, kernelVars, pc, arg, jtn, call, boundVars,
                   ghostVars, g_init_process, g_system_process, boot,
                   configTICK_RATE_HZ, g_next_pid, timer, stack_size, info,
                   cur>>

\* part_010 lines 319-326, _process_set_id with process != NULL: the pid
\* is stored.
process_set_id(c, p, pid) ==
    /\ AtApp(c) /\ c \in Callers
    /\ proc[p] = "live"
    /\ procs[p].pid # pid
    /\ procs' = [procs EXCEPT ![p].pid = pid]
    /\ UNCHANGED <<thread, kernelVars, pc, arg, jtn, call, boundVars,
                   ghostVars, g_init_process, g_system_process, proc, boot,
                   configTICK_RATE_HZ, g_next_pid, timer, stack_size, info,
                   cur>>

\* The process IDs given to _process_set_id.
Pids == 1 .. MaxPid

\* The application tasks create and destroy processes and set their IDs.
PidNext ==
    \/ \E c \in Callers, p \in ProcessBlocks : process_create_call(c, p)
    \/ \E c \in Callers : process_create_enter(c)
    \/ \E c \in Callers : process_create_pid(c)
    \/ \E c \in Callers, p \in ProcessBlocks : process_destroy_call(c, p)
    \/ \E c \in Callers, p \in ProcessBlocks, pid \in Pids :
          process_set_id(c, p, pid)
    \/ \E t \in Tasks : api_return(t)

PidSpec == Init /\ [][PidNext]_vars

\* _init of part_006 (lines 44-73; part_007 has the same branch), called
\* by main() while the scheduler is not started: the root process is
\* created and set as the fallback, and vTaskStartScheduler() starts the
\* tasks; the call does not return before the scheduler is ended.
init_start_scheduler ==
    /\ inCS = MAIN
    /\ g_system_process = NULL
    /\ \E p \in ProcessBlocks :
          /\ proc[p] # "live"
          /\ proc' = dmosi_process_create(proc, p)
          /\ g_system_process' = p
          /\ g_init_process'   = p
    /\ inCS' = NULL
    /\ UNCHANGED <<thread, task, pc, arg, jtn, call, boundVars, ghostVars,
                   boot, sysVars, cur>>

\* part_006 lines 68-73: vTaskEndScheduler() has been called, main() runs
\* again: vTaskStartScheduler() returns, the fallback is cleared and _init
\* returns true.
init_scheduler_ended ==
    /\ inCS = NULL
    /\ g_init_process # NULL
    /\ \A c \in Callers : pc[c] \notin {"in_boot", "in_clear"}
    /\ inCS' = MAIN
    /\ g_init_process' = NULL
    /\ UNCHANGED <<thread, task, pc, arg, jtn, call, boundVars, ghostVars,
                   g_system_process, proc, boot, sysVars, cur>>

\* The backend with the _init that starts the scheduler.
SchedInitNext ==
    \/ init_start_scheduler
    \/ init_scheduler_ended
    \/ InitNext

SchedInitSpec == BootWith(MAIN) /\ [][SchedInitNext]_vars

\* ----------------------------------------------------- thread_enumerate
\* The tasks of the model in the order of their identifiers.
TaskSeq == [i \in 1..Cardinality(Tasks) |-> i]

\* uxTaskGetSystemState: the tasks the kernel has, one array entry each.
uxTaskGetSystemState == SelectSeq(TaskSeq, Alive)

\* pvTaskGetThreadLocalStoragePointer(x, 0); x may have been deleted since
\* the array was filled, and then the read is of a released control block.
RdTls(x) == IF Alive(x) THEN {task[x].tls} ELSE AllHandles \cup {NULL}

Min(a, b) == IF a < b THEN a ELSE b

Range(f) == {f[i] : i \in DOMAIN f}

\* lines 519-531, _thread_get_all (process = NULL) and
\* _thread_get_by_process: the temporary array is allocated with room for
\* every task plus THREAD_ENUM_MARGIN and filled by uxTaskGetSystemState.
thread_enumerate_call(c, process, threads, max_count) ==
    /\ AtApp(c) /\ c \in Callers
    /\ calls < MaxCalls
    /\ pc'    = [pc EXCEPT ![c] = "e_loop"]
    /\ call'  = [call EXCEPT ![c] =
                    [NoCall EXCEPT !.en =
                        [NoEnum EXCEPT !.process = process,
                                       !.threads = threads,
                                       !.max_count = max_count,
                                       !.snap = uxTaskGetSystemState,
                                       !.i = 1]]]
    /\ calls' = calls + 1
    /\ UNCHANGED <<thread, kernelVars, arg, jtn, work, stray, ghostVars,
                   procVars, cur>>

\* lines 526-529: pvPortMalloc of the temporary array fails, return 0.
thread_enumerate_nomem(c, process, threads, max_count) ==
    /\ AtApp(c) /\ c \in Callers
    /\ calls < MaxCalls
    /\ pc'    = [pc EXCEPT ![c] = "e_done"]
    /\ call'  = [call EXCEPT ![c] =
                    [NoCall EXCEPT !.ret = "nomem",
                                   !.en = [NoEnum EXCEPT
                                              !.process = process,
                                              !.threads = threads,
                                              !.max_count = max_count]]]
    /\ calls' = calls + 1
    /\ UNCHANGED <<thread, kernelVars, arg, jtn, work, stray, ghostVars,
                   procVars, cur>>

\* Mutant of thread_enumerate_step: the write is not bounded by max_count.
thread_enumerate_step_NoBound(c) ==
    /\ pc[c] = "e_loop" /\ CanRun(c)
    /\ LET e == call[c].en
           x == e.snap[e.i]
       IN /\ e.i <= Len(e.snap)
          /\ task' \in IF Alive(x) THEN {task} ELSE StaleCall(task)
          /\ \E t \in RdTls(x) :
                \E p \in (IF t = NULL \/ e.process = NULL
                           THEN {NULL} ELSE RdProcess(t)) :
                   call' = [call EXCEPT ![c].en =
                      IF t = NULL \/ (e.process # NULL /\ p # e.process)
                      THEN [e EXCEPT !.i = @ + 1]
                      ELSE [e EXCEPT
                              !.i = @ + 1,
                              !.out = IF e.threads THEN Append(@, t) ELSE @,
                              !.count = @ + 1,
                              !.matched = @ \cup {x}]]
    /\ UNCHANGED <<thread, inCS, pc, arg, jtn, boundVars, ghostVars,
                   procVars, cur>>

\* lines 534-547, one iteration of the loop: read the TLS slot of the next
\* task of the array; skip an empty slot and, with a process filter, a
\* handle of another process; write the handle if there is room; count.
thread_enumerate_step(c) ==
    /\ pc[c] = "e_loop" /\ CanRun(c)
    /\ LET e == call[c].en
           x == e.snap[e.i]
       IN /\ e.i <= Len(e.snap)
          /\ task' \in IF Alive(x) THEN {task} ELSE StaleCall(task)
          /\ \E t \in RdTls(x) :
                \E p \in (IF t = NULL \/ e.process = NULL
                           THEN {NULL} ELSE RdProcess(t)) :
                   call' = [call EXCEPT ![c].en =
                      IF t = NULL \/ (e.process # NULL /\ p # e.process)
                      THEN [e EXCEPT !.i = @ + 1]
                      ELSE [e EXCEPT
                              !.i = @ + 1,
                              !.out = IF e.threads /\ e.count < e.max_count
                                      THEN Append(@, t) ELSE @,
                              !.count = @ + 1,
                              !.matched = @ \cup {x}]]
    /\ UNCHANGED <<thread, inCS, pc, arg, jtn, boundVars, ghostVars,
                   procVars, cur>>

\* lines 534 and 549-554: the loop ends, vPortFree(task_array), and the
\* count is returned, capped at max_count when an array was given.
thread_enumerate_return(c) ==
    /\ pc[c] = "e_loop" /\ CanRun(c)
    /\ LET e == call[c].en
       IN /\ e.i > Len(e.snap)
          /\ call' = [call EXCEPT
                         ![c].ret = "value",
                         ![c].en.ret = IF e.threads /\ e.count > e.max_count
                                       THEN e.max_count ELSE e.count]
    /\ pc' = [pc EXCEPT ![c] = "e_done"]
    /\ UNCHANGED <<thread, kernelVars, arg, jtn, boundVars, ghostVars,
                   procVars, cur>>

\* The arguments of an enumeration: a process filter or none, and either
\* no array (max_count is not used) or an array and its size.
EnumArgs ==
    {[process |-> p, threads |-> FALSE, max_count |-> 0] :
        p \in Processes \cup {NULL}}
    \cup {[process |-> p, threads |-> TRUE, max_count |-> m] :
        p \in Processes \cup {NULL}, m \in 0..MaxCount}

\* The application task that enumerates; the other tasks create, register
\* and complete meanwhile.
Enumerator == 1

\* Enumeration next to create, completion and lazy registration.
EnumNext ==
    \/ \E c \in Callers, h \in Handles, p \in Processes :
          thread_create_in(c, h, p)
    \/ \E t \in Tasks :
          \/ thread_wrapper_tls(t)     \/ entry_return(t)
          \/ thread_wrapper_enter(t)   \/ thread_wrapper_mark(t)
          \/ thread_wrapper_cleartls(t) \/ thread_wrapper_notify(t)
          \/ thread_wrapper_delete(t)
    \/ \E c \in Callers : task[c].tls = NULL /\ thread_current(c)
    \/ \E a \in EnumArgs :
          thread_enumerate_call(Enumerator, a.process, a.threads, a.max_count)
    \/ \E a \in EnumArgs :
          thread_enumerate_nomem(Enumerator, a.process, a.threads, a.max_count)
    \/ thread_enumerate_step(Enumerator)
    \/ thread_enumerate_return(Enumerator)
    \/ \E t \in Tasks : api_return(t)

EnumSpec == Init /\ [][EnumNext]_vars

\* Enumeration next to destroy as well.
EnumDestroyNext ==
    \/ EnumNext
    \/ \E c \in Callers : \E h \in Handles \cup {LazyOf(c)} :
          thread_destroy_call(c, h)
    \/ DestroyNext

EnumDestroySpec == Init /\ [][EnumDestroyNext]_vars

\* ------------------------------------------------------ observations
JoinPcs == {"j_enter1", "j_check", "j_take", "j_enter2", "j_recheck",
            "j_enter3", "j_mark", "j_done"}

\* c is inside a join call on handle h (j_done: about to return).
InJoin(c, h) == pc[c] \in JoinPcs /\ arg[c] = h

\* entry(arg) of h's thread has returned to thread_wrapper.
EntryReturned(h) ==
    pc[TaskOf(h)] \in {"w_enter", "w_mark", "w_cleartls", "w_notify",
                       "w_delete", "dead"}

\* c's join on h is the only join call made on h so far, and nobody has
\* called kill or destroy on h.
OnlyJoin(c, h) == InJoin(c, h) /\ hist[h].joinCalls = 1

Undisturbed(h) == ~hist[h].killCalled /\ ~hist[h].destroyCalled

\* ------------------------------------------------------------------ C1
\* C1: for a thread made by create that nobody kills or destroys, the join
\* on its handle returns 0, and it returns only after entry(arg) has
\* returned: the join eventually returns; the one join made on the handle
\* returns 0; and whenever a join returns 0, the entry function is back in
\* thread_wrapper and completed is true.
C1_JoinAfterEntry ==
    /\ [](\A c \in Callers, h \in Handles :
            (InJoin(c, h) /\ Undisturbed(h) /\ pc[c] = "j_done")
                => /\ OnlyJoin(c, h) => call[c].ret = OK
                   /\ call[c].ret = OK
                         => (EntryReturned(h) /\ thread[h].completed))
    /\ \A c \in Callers, h \in Handles :
            (OnlyJoin(c, h) /\ Undisturbed(h))
                ~> (pc[c] = "j_done" \/ ~Undisturbed(h))

\* C1 witness: a join that had to wait for the thread has returned 0.
C1_Witness ==
    \E c \in Callers, h \in Handles :
        /\ OnlyJoin(c, h) /\ Undisturbed(h)
        /\ pc[c] = "j_done" /\ call[c].ret = OK /\ call[c].waited

\* ------------------------------------------------------------------ C2
\* c is registered as joiner of h and is waiting for, or has just taken,
\* its wake-up.
Registered(c, h) ==
    /\ arg[c] = h /\ pc[c] \in {"j_take", "j_enter2", "j_recheck"}
    /\ Live(h) /\ thread[h].joiner = c

\* C2: no lost wake-up: a join that found completed = false and registered
\* itself as joiner returns 0 once the target has completed (by self-exit
\* or by kill), under fair scheduling, as long as the handle is not
\* destroyed under it and the kernel keeps scheduling (it may stop after
\* a vTaskDelete of a task that is already deleted, see C11).
C2_NoLostWakeup ==
    \A c \in Callers, h \in Handles :
        (Registered(c, h) /\ thread[h].completed)
            ~> ((pc[c] = "j_done" /\ arg[c] = h /\ call[c].ret = OK)
                \/ hist[h].destroyCalled \/ Halted)

\* C2 witness: the joiner is registered and blocked with no notification
\* pending while the killer has set completed and not yet notified.
C2_Witness ==
    \E c \in Callers, k \in Callers, h \in Handles :
        /\ Registered(c, h) /\ thread[h].completed
        /\ pc[c] = "j_take" /\ task[c].notif = 0
        /\ pc[k] = "k_notify" /\ arg[k] = h /\ jtn[k] = c
        /\ ~hist[h].destroyCalled

\* ------------------------------------------------------------------ C3
\* C3: after kill(h) has returned 0 for a thread that was still running, a
\* subsequent join(h) (the only join made on h, h not destroyed) returns 0
\* without suspending the caller: it never registers as joiner and never
\* waits for a notification.
C3_JoinAfterKill ==
    \A c \in Callers, h \in Handles :
        (OnlyJoin(c, h) /\ call[c].preKillOk /\ ~hist[h].destroyCalled)
            => /\ pc[c] \in {"j_enter1", "j_check", "j_enter3", "j_mark", "j_done"}
               /\ thread[h].joiner = NULL
               /\ ~call[c].waited
               /\ pc[c] = "j_done" => call[c].ret = OK

\* C3 witness: such a join has returned 0.
C3_Witness ==
    \E c \in Callers, h \in Handles :
        /\ OnlyJoin(c, h) /\ call[c].preKillOk /\ ~hist[h].destroyCalled
        /\ pc[c] = "j_done" /\ call[c].ret = OK

\* ------------------------------------------------------------------ C4
\* C4: once kill has marked a running thread completed and a join on the
\* handle has returned 0, the target's native task takes no further step
\* of its entry function.
C4_NoEntryStepAfterJoin ==
    [][\A h \in Handles :
          (Live(h) /\ hist[h].killMarked /\ hist[h].joinOk > 0
              /\ ~hist[h].destroyCalled)
              => work'[h] = work[h]]_vars

\* ------------------------------------------------------------------ C5
\* C5: on a handle that is not destroyed, at most one join call returns 0.
C5_AtMostOneJoin ==
    \A h \in Handles : ~hist[h].destroyCalled => hist[h].joinOk <= 1

\* ------------------------------------------------------------------ C6
\* C6: a join called on a handle whose joined flag is already true leaves
\* the critical section of lines 247-252 with -EINVAL, without having
\* waited, and changes no field of the handle and no task.
C6_AlreadyJoined ==
    [][\A c \in Callers :
          (pc[c] = "j_check" /\ pc'[c] # "j_check"
              /\ call[c].preJoined /\ Live(arg[c]))
              => /\ pc'[c] = "j_done"
                 /\ call'[c].ret = E_INVAL
                 /\ ~call'[c].waited
                 /\ thread' = thread
                 /\ task' = task]_vars

\* C6 witness: a second join on a joined handle has returned -EINVAL.
C6_Witness ==
    \E c \in Callers :
        /\ pc[c] = "j_done" /\ call[c].preJoined /\ Live(arg[c])
        /\ call[c].ret = E_INVAL /\ thread[arg[c]].joined

\* ------------------------------------------------------------------ C7
\* Some other task is registered as joiner of h and is still inside join,
\* and h has not completed.
JoinerWaiting(c, h) ==
    /\ Live(h) /\ ~thread[h].completed
    /\ \E j \in Callers \ {c} : Registered(j, h)

\* C7: while one task is registered as joiner on a handle that has not
\* completed, the join of a second task leaves the critical section with
\* -EBUSY, without waiting, and leaves the registered joiner (and the rest
\* of the handle) unchanged.
C7_SecondJoinerBusy ==
    [][\A c \in Callers :
          (pc[c] = "j_check" /\ pc'[c] # "j_check"
              /\ JoinerWaiting(c, arg[c]))
              => /\ pc'[c] = "j_done"
                 /\ call'[c].ret = E_BUSY
                 /\ ~call'[c].waited
                 /\ thread' = thread
                 /\ task' = task]_vars

\* C7 witness: the second join has returned -EBUSY while the first joiner
\* is still registered and blocked.
C7_Witness ==
    \E c \in Callers :
        /\ pc[c] = "j_done" /\ call[c].ret = E_BUSY
        /\ JoinerWaiting(c, arg[c])
        /\ \E j \in Callers \ {c} : pc[j] = "j_take" /\ arg[j] = arg[c]

\* ------------------------------------------------------------------ C8
\* A step of thread_wrapper or kill gives task j a notification (the
\* notifications of other sources are counted by stray).
Wakes(j) == task'[j].notif > task[j].notif /\ stray' = stray

\* C8: completion-then-notify: thread_wrapper and kill give the joiner its
\* notification outside the critical section, and only when the completed
\* flag of their handle is already true.
C8_CompletionThenNotify ==
    [][\A j \in Tasks :
          Wakes(j)
              => /\ inCS = NULL /\ inCS' = NULL
                 /\ \E t \in Tasks :
                       /\ pc[t] \in {"w_notify", "k_notify"} /\ pc'[t] # pc[t]
                       /\ jtn[t] = j
                       /\ Live(arg[t]) => thread[arg[t]].completed]_vars

\* C8 witness: a registered joiner holds a wake-up given by thread_wrapper
\* or kill, not by another source.
C8_Witness ==
    \E c \in Callers, h \in Handles :
        /\ Registered(c, h) /\ pc[c] = "j_take"
        /\ task[c].notif > 0 /\ stray = 0

\* ------------------------------------------------------------------ C9
\* C9: join never returns 0 while completed is false (on a handle that is
\* not destroyed under it).
C9_JoinOnlyWhenCompleted ==
    \A c \in Callers :
        (pc[c] = "j_done" /\ call[c].ret = OK /\ Live(arg[c]))
            => thread[arg[c]].completed

\* C9 witness: a joiner that was woken while completed was still false,
\* waited again and then returned 0.
C9_Witness ==
    \E c \in Callers :
        /\ pc[c] = "j_done" /\ call[c].ret = OK /\ call[c].spun
        /\ Live(arg[c]) /\ thread[arg[c]].completed

\* ----------------------------------------------------------------- C10
\* C10: completed of a handle made by create starts false, goes to true
\* only in a step taken inside the critical section of thread_wrapper
\* (line 112) or of kill (line 479), and never goes back to false.
C10_CompletedOnce ==
    [][\A h \in Handles :
          /\ (~Live(h) /\ Live(h)') => ~thread'[h].completed
          /\ (Live(h) /\ Live(h)')
                => /\ thread[h].completed => thread'[h].completed
                   /\ (~thread[h].completed /\ thread'[h].completed)
                         => /\ inCS # NULL
                            /\ pc[inCS] \in {"w_mark", "k_mark"}
                            /\ arg[inCS] = h]_vars

\* C10 witness: both paths have run on one handle: kill has set the flag
\* and the thread's own wrapper has since passed its critical section.
C10_Witness ==
    \E h \in Handles :
        /\ Live(h) /\ thread[h].completed /\ hist[h].killMarked
        /\ pc[TaskOf(h)] \in {"w_cleartls", "w_notify", "w_delete", "dead"}

\* ----------------------------------------------------------------- C11
\* C11: kill passes the native task of its handle to vTaskDelete (line 489)
\* only while that task still exists: never after the task has deleted
\* itself or has been deleted by an earlier kill.
C11_KillDeletesOnlyRunning ==
    [][\A c \in Callers :
          (pc[c] = "k_delete" /\ pc'[c] # "k_delete"
              /\ Live(arg[c]) /\ ~hist[arg[c]].destroyCalled
              /\ thread[arg[c]].handle \notin {NULL, c})
              => Alive(thread[arg[c]].handle)]_vars

\* ----------------------------------------------------------------- C12
\* C12: get_name, get_priority and get_info make their kernel call on
\* thread->handle (lines 386, 433, 634) only while the completed flag of
\* the created handle is false.
C12_NoQueryOnCompleted ==
    [][\A c \in Callers :
          (pc[c] \in {"n_kernel", "p_kernel", "i_kernel"} /\ pc'[c] = "q_done"
              /\ arg[c] \in Handles /\ Live(arg[c])
              /\ thread[arg[c]].handle # NULL)
              => ~thread[arg[c]].completed]_vars

\* ----------------------------------------------------------------- C13
\* The task has deleted itself (vTaskDelete(NULL) at the end of
\* thread_wrapper, or in a kill of its own handle).
SelfTerminated(t) == pc[t] = "dead"

\* C13: destroy does not read or clear the TLS slot of (lines 213-215), and
\* does not delete (line 223), a native task that has deleted itself.
C13_DestroySparesTerminated ==
    [][\A c \in Callers :
          (pc[c] \in {"d_tls", "d_delete"} /\ pc'[c] # pc[c]
              /\ Live(arg[c]) /\ thread[arg[c]].handle # NULL)
              => ~SelfTerminated(thread[arg[c]].handle)]_vars

\* ----------------------------------------------------------------- C14
\* C14: once destroy has freed a handle (made by create or by
\* _thread_current), the TLS slot of no existing task points to it.
C14_NoTlsToFreed ==
    \A h \in AllHandles, t \in Tasks :
        (thread[h].alloc = "freed" /\ Alive(t)) => task[t].tls # h

\* ----------------------------------------------------------------- C15
\* Task t is inside destroy, and the handle it destroys is the handle of
\* t itself (made by _thread_current for t, or by the create that made t).
DestroyPcs == {"d_check1", "d_tls", "d_check2", "d_delete", "d_free"}

OwnDestroy(t) == pc[t] \in DestroyPcs /\ thread[arg[t]].handle = t

\* C15: the steps of a destroy that a task makes on its own handle (not
\* freed under it by another destroy) never reach vTaskDelete and leave
\* the task running; the last one frees the handle.
C15_DestroyOwnKeepsTask ==
    [][\A t \in Tasks :
          (OwnDestroy(t) /\ pc'[t] # pc[t] /\ Live(arg[t]))
              => /\ pc[t] # "d_delete" /\ pc'[t] \notin {"d_delete", "dead"}
                 /\ task'[t].state = "alive"
                 /\ \A u \in Tasks : task'[u].state = task[u].state
                 /\ pc[t] = "d_free" => thread'[arg[t]].alloc = "freed"]_vars

\* C15 witness: a task made outside create and a thread made by create
\* have both destroyed their own handle, and both are still running.
C15_Witness ==
    \E c \in Callers, t \in Tasks \ Callers :
        /\ pc[c] = "d_done" /\ thread[arg[c]].handle = c /\ Alive(c)
        /\ thread[arg[c]].alloc = "freed"
        /\ pc[t] = "d_done" /\ thread[arg[t]].handle = t /\ Alive(t)
        /\ thread[arg[t]].alloc = "freed"

StillRunning(t) ==
    /\ Alive(t)
    /\ pc[t] \notin {"w_enter", "w_mark", "w_cleartls", "w_notify", "w_delete"}

\* The two behaviours for the handles in set H: a join returns 0 only when
\* the handle's task is no longer running; and when a destroy called from
\* another task returns, the handle's task is no longer running.
LikeCreated(H) ==
    \A c \in Callers, h \in H :
        /\ (pc[c] = "j_done" /\ arg[c] = h /\ call[c].ret = OK
              /\ ~hist[h].destroyCalled)
               => ~StillRunning(thread[h].handle)
        /\ (pc[c] = "d_done" /\ arg[c] = h /\ thread[h].handle # c)
               => ~StillRunning(thread[h].handle)

\* C17: join and destroy treat a handle made by _thread_current as they
\* treat a handle made by create.
C17_LazyLikeCreated == LikeCreated(AllHandles)

\* The same for the handles made by create alone.
CreatedLikeCreated == LikeCreated(Handles)

\* ----------------------------------------------------------------- C18
\* Task t is inside a kill of its own handle.
SelfKill(t) ==
    /\ pc[t] \in {"k_enter", "k_mark", "k_notify", "k_delete"}
    /\ thread[arg[t]].handle = t

\* C18: a kill of the caller's own handle never returns; its last step
\* deletes the calling task, and at that step completed is true and a
\* joiner that is registered and blocked has its wake-up pending; a task
\* that has deleted itself takes no further step.
C18_SelfKill ==
    /\ [](\A t \in Tasks : pc[t] = "dead" => ~Alive(t))
    /\ [][\A t \in Tasks :
            (SelfKill(t) /\ pc'[t] # pc[t])
                => /\ pc'[t] # "k_done"
                   /\ pc[t] = "k_delete"
                        => /\ pc'[t] = "dead"
                           /\ task'[t].state = "deleted"
                           /\ thread[arg[t]].completed
                           /\ \A c \in Callers :
                                 (Registered(c, arg[t]) /\ pc[c] = "j_take")
                                     => task[c].notif > 0]_vars

\* C18 witness: a created thread has killed itself inside entry, and the
\* task that was blocked in join on its handle has returned 0.
C18_Witness ==
    \E t \in Tasks \ Callers, c \in Callers :
        /\ pc[t] = "dead" /\ hist[arg[t]].killCalled /\ ~Alive(t)
        /\ thread[arg[t]].completed
        /\ pc[c] = "j_done" /\ arg[c] = arg[t]
        /\ call[c].ret = OK /\ call[c].waited

\* ----------------------------------------------------------------- C19
\* C19: a create that fails (thread_new or xTaskCreate) returns NULL and
\* leaves no trace: no handle is allocated that was not before, no task is
\* made and no TLS slot changes; and every handle that is allocated has a
\* native task: no half-created handle exists outside a create call.
C19_CreateFailureUnwinds ==
    /\ [](\A h \in Handles :
            Live(h) => /\ thread[h].handle # NULL
                       /\ task[thread[h].handle].state # "none")
    /\ [][\A c \in Callers :
            (pc[c] = "idle" /\ pc'[c] = "c_done")
                => /\ call'[c].ret = NULL_HANDLE
                   /\ task' = task
                   /\ \A h \in AllHandles :
                         thread'[h].alloc = "live" => thread[h] = thread'[h]]_vars

\* C19 witness: a create has failed and returned NULL; there is no handle
\* and no task for it.
C19_Witness ==
    \E c \in Callers :
        /\ pc[c] = "c_done" /\ call[c].ret = NULL_HANDLE
        /\ \A h \in Handles :
              thread[h].alloc = "none" /\ task[TaskOf(h)].state = "none"
        /\ \A t \in Tasks : task[t].tls = NULL

\* ----------------------------------------------------------------- C20
\* The process a handle was given when it was made: the process argument
\* of create (or, for a lazy handle, the fallback) if there is one, else
\* the current process of the task that made it, at that time.
AssociatedAtCreation(h) ==
    IF hist[h].reqProcess # NULL THEN {hist[h].reqProcess}
                                 ELSE hist[h].curProcess

\* C20: get_process(h) returns the process h was given when it was made
\* (as long as the task of h has not set another current process): the
\* process argument of create if non-NULL, else the creator's current
\* process at creation; for a lazy handle the init-time fallback if set,
\* else the caller's current process.
C20_ProcessAssociation ==
    /\ [](\A h \in AllHandles :
            (Live(h) /\ ~hist[h].reassigned)
                => thread[h].process \in AssociatedAtCreation(h))
    /\ [][\A c \in Callers :
            (pc[c] = "idle" /\ pc'[c] = "q_done"
                /\ ~hist[arg'[c]].reassigned)
                => call'[c].ret \in AssociatedAtCreation(arg'[c])]_vars

\* C20 witness: get_process has returned the process of a handle created
\* with process NULL by a task whose current process is not the root
\* process, and a lazy handle has been given a fallback that is not the
\* root process.
C20_Witness ==
    \E c \in Callers, h \in Handles, l \in LazyHandles :
        /\ pc[c] = "q_done" /\ arg[c] = h /\ ~hist[h].reassigned
        /\ hist[h].reqProcess = NULL
        /\ call[c].ret # g_system_process
        /\ Live(l) /\ ~hist[l].reassigned
        /\ hist[l].reqProcess # NULL
        /\ thread[l].process # g_system_process

\* ----------------------------------------------------------------- C21
\* Task x has a handle in its TLS slot that passes the process filter.
MatchesProcess(x, process) ==
    /\ task[x].tls # NULL
    /\ process = NULL \/ thread[task[x].tls].process = process

\* The task x read by the loop iteration that c is about to run matches.
Matches(c, x) == MatchesProcess(x, call[c].en.process)

\* The counting of one enumeration: the loop counts a task exactly if it
\* matches, and what is returned and written follows from the number T of
\* tasks counted.
EnumerateCounts(c) ==
    LET e == call[c].en
        T == Cardinality(e.matched)
    IN /\ (pc[c] = "e_loop" /\ call'[c].en.i > e.i
              /\ Alive(e.snap[e.i])
              /\ (task[e.snap[e.i]].tls # NULL
                     => Live(task[e.snap[e.i]].tls)))
            => (e.snap[e.i] \in call'[c].en.matched
                   <=> Matches(c, e.snap[e.i]))
       /\ (pc[c] = "e_loop" /\ pc'[c] = "e_done")
            => /\ call'[c].en.ret =
                     IF e.threads THEN Min(T, e.max_count) ELSE T
               /\ Len(e.out) =
                     IF e.threads THEN Min(T, e.max_count) ELSE 0

InitReturns(c) == pc[c] # "in_done" /\ pc'[c] = "in_done"

InitWindow == \E c \in Callers : pc[c] \in {"in_boot", "in_clear"}

C27_DeinitIdempotent ==
    /\ [](\A c \in Callers :
            pc[c] = "dn_done"
               => /\ call[c].ret = B_TRUE
                  /\ g_system_process = NULL /\ g_init_process = NULL)
    /\ [][\A c \in Callers :
            (pc[c] = "dn_check" /\ pc'[c] # "dn_check" /\ ~Initialised)
               => /\ pc'[c] = "dn_done"
                  /\ call'[c].ret = B_TRUE
                  /\ UNCHANGED <<proc, g_system_process, g_init_process,
                                 thread, task, cur>>]_vars

\* C27 witness: _deinit has returned true on a backend that was never
\* initialised: no process block and no handle was ever allocated.
C27_Witness ==
    \E c \in Callers :
        /\ pc[c] = "dn_done" /\ call[c].ret = B_TRUE
        /\ ~Initialised
        /\ \A p \in ProcessBlocks : proc[p] = "none"
        /\ \A t \in Tasks : task[t].tls = NULL

\* ----------------------------------------------------------------- C28
InitOk   == <<"in_done", B_TRUE>>
DeinitOk == <<"dn_done", B_TRUE>>

\* The calls that have returned so far are _init, _init, _deinit and, for
\* n = 4, a further _init; the first and the last _init and the _deinit
\* have returned true.
InitInitDeinit(n) ==
    /\ Len(boot) = n
    /\ boot[1] = InitOk /\ boot[2][1] = "in_done" /\ boot[3] = DeinitOk
    /\ n = 4 => boot[4] = InitOk

\* C28: after _init, _init, _deinit the TLS slot of the calling task is
\* NULL and its handle and the root process are freed; after a further
\* _init the task is registered again with a live handle in a live root
\* process, and the first join of a thread it created since returns 0.
C28_Reinit ==
    LET c == MainTask
    IN /\ (InitInitDeinit(3) /\ pc[c] = "idle")
            => /\ task[c].tls = NULL
               /\ thread[LazyOf(c)].alloc = "freed"
               /\ g_system_process = NULL /\ g_init_process = NULL
               /\ \A p \in ProcessBlocks : proc[p] # "live"
       /\ (InitInitDeinit(4) /\ pc[c] \in {"idle", "j_done"})
            => /\ task[c].tls # NULL /\ Live(task[c].tls)
               /\ thread[task[c].tls].handle = c
               /\ Initialised /\ proc[g_system_process] = "live"
               /\ thread[task[c].tls].process = g_system_process
               /\ \A h \in Handles :
                     (pc[c] = "j_done" /\ arg[c] = h
                         /\ hist[h].joinCalls = 1
                         /\ thread[h].process = g_system_process)
                        => call[c].ret = OK

\* C28 witness: _init, _init, _deinit, _init have returned, and the join
\* of a thread created in the new root process has returned 0.
C28_Witness ==
    /\ InitInitDeinit(4)
    /\ pc[MainTask] = "j_done" /\ call[MainTask].ret = OK
    /\ \E h \in Handles :
          /\ arg[MainTask] = h /\ thread[h].joined
          /\ thread[h].process = g_system_process
          /\ thread[task[MainTask].tls].process = g_system_process
    /\ \E p \in ProcessBlocks : proc[p] = "freed"

\* ----------------------------------------------------------------- C29
\* C29: bootstrapping terminates: no task ever holds more than one
\* _thread_current frame on its stack (a second frame on the same empty
\* TLS slot repeats the first), and no task overflows its stack.
C29_BootstrapTerminates ==
    \A c \in Callers : call[c].depth <= 1 /\ pc[c] # "tc_overflow"

\* ----------------------------------------------------------------- C30
\* C30: the block time a timed call computes from timeout_ms is at least
\* one tick for a positive timeout_ms, 0 for timeout_ms = 0 and
\* portMAX_DELAY for a negative one, at every tick rate.
C30_TimeoutAtLeastOneTick ==
    \A c \in Callers :
        (pc[c] = "t_done" /\ call[c].tmo.conv)
           => LET ms    == call[c].tmo.timeout_ms
                  ticks == call[c].tmo.ticks
              IN /\ ms > 0 => (ticks >= 1 /\ ticks # portMAX_DELAY)
                 /\ ms = 0 => ticks = 0
                 /\ ms < 0 => ticks = portMAX_DELAY

\* ----------------------------------------------------------------- C31
\* C31: a _semaphore_wait that did not take the semaphore returns -EAGAIN
\* when timeout_ms is 0 and -ETIMEDOUT when timeout_ms is positive.
C31_SemaphoreWaitResult ==
    \A c \in Callers :
        (/\ pc[c] = "t_done"
         /\ call[c].tmo.fn = "semaphore_wait"
         /\ call[c].ret # OK)
           => /\ call[c].tmo.timeout_ms = 0 => call[c].ret = E_AGAIN
              /\ call[c].tmo.timeout_ms > 0 => call[c].ret = E_TIMEDOUT

\* ----------------------------------------------------------------- C32
\* C32: a _process_wait that returns 0 returns it for a process whose
\* state is TERMINATED or ZOMBIE, and a _process_wait that reports a
\* timeout has emptied the waiter slot.
C32_WaitMeansTerminated ==
    [][\A c \in Callers :
         (pc[c] # "pw_done" /\ pc'[c] = "pw_done")
            => /\ call'[c].ret = OK => procs'[arg[c]].state
                                           \in {"TERMINATED", "ZOMBIE"}
               /\ call'[c].ret \in {E_AGAIN, E_TIMEDOUT}
                     => procs'[arg[c]].waiter = NULL]_vars

\* ----------------------------------------------------------------- C33
\* C33: no two existing processes have the same pid.
C33_UniquePids ==
    \A p, q \in ProcessBlocks :
        (p # q /\ proc[p] = "live" /\ proc[q] = "live")
           => procs[p].pid # procs[q].pid

\* ----------------------------------------------------------------- C34
\* The positions between a taskENTER_CRITICAL and its taskEXIT_CRITICAL in
\* join, kill, thread_wrapper, _process_kill and _process_wait.
InCritical ==
    {"j_check", "j_recheck", "j_mark", "k_mark", "w_mark",
     "pw_check", "pw_tmo_clear", "pk_mark"}

C35_PeriodRoundTrip ==
    \A k \in Timers :
        (timer[k].alloc = "live" /\ timer[k].period_got # NoPeriod)
            => timer[k].period_got = timer[k].period_ms

\* C36: thread_enumerate returns no stale handle of a completed thread:
\* a handle made by create that _thread_get_all or _thread_get_by_process
\* writes to the array does not have its completed flag set.
C36_EnumerateNoCompleted ==
    [][\A c \in Callers :
          LET out == call'[c].en.out
          IN  (pc[c] = "e_loop" /\ Len(out) > Len(call[c].en.out)
                 /\ out[Len(out)] \in Handles
                 /\ thread[out[Len(out)]].alloc = "live")
                => ~thread[out[Len(out)]].completed]_vars

\* C37: _thread_get_info on a handle made by create that has completed,
\* or whose native reference is NULL, returns the state TERMINATED with
\* stack_current, stack_peak, cpu_usage and runtime 0 and does not query
\* the kernel; for a live thread stack_peak is stack_size minus the
\* high-water free bytes, or 0 if that is negative, stack_current is 0
\* and cpu_usage lies in 0..100.
C37_GetInfo ==
    [][\A c \in Callers :
          LET h == arg[c]
              i == info'[c]
          IN  /\ (pc[c] = "gi_check" /\ pc'[c] # "gi_check" /\ Live(h)
                    /\ ((h \in Handles /\ thread[h].completed)
                           \/ thread[h].handle = NULL))
                 => /\ pc'[c] = "gi_done" /\ call'[c].ret = OK
                    /\ i.state = "TERMINATED" /\ ~i.queried
                    /\ i.stack_current = 0 /\ i.stack_peak = 0
                    /\ i.cpu_usage = 0 /\ i.runtime_ms = 0
              /\ (pc[c] = "gi_query" /\ pc'[c] = "gi_done" /\ Live(h)
                    /\ Alive(thread[h].handle))
                 => /\ call'[c].ret = OK /\ i.queried
                    /\ i.stack_peak =
                          (IF stack_size[h] - i.free_bytes > 0
                           THEN stack_size[h] - i.free_bytes ELSE 0)
                    /\ i.stack_current = 0
                    /\ i.cpu_usage \in 0 .. 100]_vars

\* Both cases have happened: a completed handle reported as terminated,
\* and a live thread reported with a peak below its stack size.
C37_Witness ==
    \E c, d \in Callers :
        /\ pc[c] = "gi_done" /\ call[c].ret = OK /\ ~info[c].queried
        /\ arg[c] \in Handles /\ thread[arg[c]].completed
        /\ pc[d] = "gi_done" /\ info[d].queried
        /\ info[d].stack_peak > 0 /\ info[d].stack_peak < stack_size[arg[d]]
        /\ info[d].cpu_usage = 100

\* C38: a task receives a join wake-up notification (the xTaskNotifyGive
\* of thread_wrapper or of _thread_kill) only while it is inside join on
\* that handle, where it registered as joiner: none once join has
\* returned, neither from a later kill nor from a kill that races with
\* the thread's own exit.
C38_JoinNotifications ==
    [][\A n \in Tasks :
          (pc[n] \in {"w_notify", "k_notify"} /\ pc'[n] # pc[n]
             /\ jtn[n] # NULL /\ Live(arg[n])
             /\ thread[arg[n]].joiner = jtn[n])
            => LET t == jtn[n]
               IN  /\ pc[t] \in JoinPcs \ {"j_done"}
                   /\ arg[t] = arg[n]]_vars

\* C39: when destroy forcibly ends a thread that is still running while
\* another task is blocked in join on the handle, the joiner is released:
\* at the step that frees the handle, a task that waits in join on it has
\* its wake-up pending (otherwise nothing is left to wake it, and a later
\* wake-up makes it read the freed handle).
C39_DestroyReleasesJoiner ==
    [][\A c \in Callers :
          (pc[c] = "d_free" /\ pc'[c] = "d_done" /\ Live(arg[c])
             /\ ~thread[arg[c]].completed)
            => \A t \in Callers :
                  (pc[t] = "j_take" /\ arg[t] = arg[c]
                     /\ thread[arg[c]].joiner = t)
                    => task'[t].notif > 0]_vars

\* C40: when _deinit returns, no handle that exists (of a created thread
\* or of another task that registered itself) refers to the root process
\* that _deinit has destroyed, whichever task called _deinit.
C40_NoHandleOfDestroyedRoot ==
    [][\A c \in Callers :
          (pc[c] = "dn_destroy" /\ pc'[c] = "dn_done"
             /\ call'[c].ret = B_TRUE)
            => \A h \in AllHandles :
                  thread'[h].alloc = "live"
                    => thread'[h].process # g_system_process]_vars

====
